---- MODULE Spec2Model ----
(***************************************************************************)
(* fantom-api-graphql: the subscription broadcaster of the root resolver    *)
(* (rootResolver.run and its channels), the contract validation pipeline    *)
(* (ContractValidator.ValidateContract behind the resolver's single-flight  *)
(* group), the peer validation sync (rootResolver.syncContract), the        *)
(* transaction flow updater (txFlowUpdater.schedule) and the shutdown of    *)
(* the process (setupSignals, ApiServer.Stop).                              *)
(*                                                                           *)
(* Go channels are modelled by their buffered contents; a send is enabled   *)
(* while the buffer is below its capacity, a receive while it is not empty. *)
(* Every goroutine step is one action; the select of the actor loop is the  *)
(* disjunction of its cases, any ready case may be taken.                   *)
(***************************************************************************)
EXTENDS Integers, Sequences, FiniteSets, TLC

(***************************************************************************)
(* Bounds of the model                                                       *)
(***************************************************************************)
\* number of Subscribe calls over a run (each gets a fresh uuid)
MaxSubs == 2
\* number of events the repository feed publishes over a run
MaxEvents == 2
\* capacity of a subscriber's delivery channel
deliveryCapacity == 1
\* capacity of the two event intake channels
onBlockChannelCapacity == 2
\* number of Unsubscribe calls over a run
MaxUnsubs == 1

(***************************************************************************)
(* Program constants                                                         *)
(***************************************************************************)
subscriptionQueueCapacity == 100
sigStopCapacity == 1

\* subscriber identifiers the uuid procedure hands out, in order; 0 is an
\* identifier no subscriber ever had
IDs == 1..MaxSubs
UnknownID == 0
Classes == {"block", "trx"}
Closers == {1, 2}

VARIABLES
    \* rootResolver
    wg,                  \* rs.wg: the wait group counter
    sigStop,             \* rs.sigStop: number of buffered stop signals
    subscribeOnBlock,    \* number of buffered *subscriptOnBlock requests
    unsubscribeOnBlock,  \* buffered ids
    blockSubscribers,    \* keys of the map; the value of key id owns events[id]
    onBlockEvents,       \* buffered block events
    subscribeOnTrx,
    unsubscribeOnTrx,
    trxSubscribers,
    onTrxEvents,
    \* the goroutine of rs.run: "run" | "done"
    runPc,
    \* the delivery channel of the subscriber registered under each id
    events,
    \* uuids handed out so far
    uuids,
    \* the repository feed: events published so far, per class
    published,
    \* callers of Close: "idle" | "wait" | "closed"
    closePc,
    \* history: every <<class, n>> ever put on the channel of id, in order
    got,
    \* history: per <<class, id>> of an Unsubscribe call, the number of events
    \* of the class published before the call
    unsubCalled

bvars == <<wg, sigStop, subscribeOnBlock, unsubscribeOnBlock, blockSubscribers,
           onBlockEvents, subscribeOnTrx, unsubscribeOnTrx, trxSubscribers,
           onTrxEvents, runPc, events, uuids, published, closePc, got, unsubCalled>>

VARIABLES
    \* one entry per validation request (a call of the resolver's
    \* ValidateContract):
    vPc,          \* where the call stands
    sc,           \* the contract of the call: Address, SourceCode, Validated
    tx,           \* the deployment transaction the repository returned
    artefacts,    \* what Compile returned
    result,       \* what the call returns to its caller: contract or error
    joined,       \* the request whose flight this call waits for, or 0
    \* shared
    flight,       \* the single-flight group: per address the call in flight
    validated,    \* the repository: the persisted validated flag per address
    synced,       \* the requests for which the peer sync has been started
    \* history: the steps of the pipeline each request has run
    ran

vvars == <<vPc, sc, tx, artefacts, result, joined, flight, validated, synced,
           ran>>

VARIABLES
    \* rs.cfg.Server.Peers, and what each peer does with a request
    peerCount,    \* number of configured peers
    answers,      \* per peer: the status it answers, NoAnswer or BadURL
    \* one call of syncContract
    syncPc,       \* "idle" | "loop" | "wait" | "returned"
    launched,     \* peers the loop has started an attempt for
    syncWg,       \* the wait group of the call
    payload,      \* the bytes.Buffer all attempts share: the unread bytes
    \* one attempt (syncContractToPeer) per peer
    aPc,          \* "none" | "start" | "send" | "exit" | "done"
    aLen,         \* ContentLength of the request
    aBody,        \* what the request has read from the buffer so far
    received,     \* the bodies of the complete requests the peer got
    outcome,      \* how the attempt ended
    cancels,      \* calls of the attempt's cancel
    dones         \* calls of wg.Done by the attempt

svars == <<peerCount, answers, syncPc, launched, syncWg, payload, aPc, aLen,
           aBody, received, outcome, cancels, dones>>

VARIABLES
    \* txFlowUpdater
    schedPc,         \* schedule: "new" | "start" | "loop" | "flow" | "done"
    flowTicker,      \* "none" | "running" | "stopped"
    trxCountTicker,
    svcWg,           \* the wait group the services share
    svcSigStop,      \* tfu.sigStop: stop signals sent and not yet received
    svcDones,        \* history: calls of tfu.wg.Done()
    reading,         \* goroutines of updateTrxCountEstimate in TransactionsCount
    writing,         \* the same in UpdateTrxCountEstimate, per value read
    estimate,        \* the cached count estimate
    ticks,           \* ticks the loop has taken
    failures,        \* history: rollups and count reads that failed
    rollups,         \* calls of TrxFlowUpdate that have not returned
    \* the process
    ts,              \* the signal channel of setupSignals
    stopPc,          \* its goroutine: "serving" | "cv" | "repo" | "repo wait"
                     \*                | "rs" | "exited"
    cvClosed         \* the contract validator has been closed

uvars == <<schedPc, flowTicker, trxCountTicker, svcWg, svcSigStop, svcDones,
           reading, writing, estimate, ticks, failures, rollups, ts, stopPc,
           cvClosed>>

VARIABLES
    \* a call of listLimitCount
    count,           \* the count asked for, an int32
    llLimit,         \* the limit it is held to, a uint32
    llReturned,      \* the call has returned
    llResult,        \* what it returned
    \* the daily flow rollup
    now,             \* time.Now().UTC()
    transactions,    \* the transactions collection
    trxVolume,       \* the trx_volume collection, its documents in order
    flowFrom,        \* the lower bound of the last rollup
    flowRuns,        \* history: rollups that returned no error
    firstVolume,     \* history: trx_volume after the first of them
    \* a call of uuid
    random,          \* what io.ReadFull(rand.Reader, ...) hands out: buf, n, err
    uuidReturned,    \* the call has returned
    uuidResult       \* what it returned: str, err

fvars == <<count, llLimit, llReturned, llResult, now, transactions,
           trxVolume, flowFrom, flowRuns, firstVolume, random, uuidReturned, uuidResult>>

VARIABLES
    \* concurrent calls of MongoDbBridge.AddAccount
    initAccounts,    \* db.initAccounts: the handle, or Nil once cleared
    onceDone,        \* the handle's sync.Once has run its function
    onceM,           \* the caller inside the Once, or 0
    inits,           \* history: runs of initAccountsCollection
    nilDo,           \* history: calls of Do on a nil handle
    accPc,           \* per caller: "idle" | "check" | "receiver" | "do"
                     \*   | "init" | "clear" | "unlock" | "returned"
                     \*   | "failed" | "panicked"
    \* a call of MongoDbBridge.TrxGasSpeed
    gsFrom,          \* *from
    gsTo,            \* *to
    gsReturned,      \* the call has returned
    gsResult,        \* what it returned: val, err
    aggregations     \* history: calls of col.Aggregate

gvars == <<initAccounts, onceDone, onceM, inits, nilDo, accPc, gsFrom, gsTo,
           gsReturned, gsResult, aggregations>>

vars == <<bvars, vvars, svars, uvars, fvars, gvars>>

(***************************************************************************)
(* New: the resolver after construction, rs.run started                     *)
(***************************************************************************)
NewResolver ==
    /\ wg = 1
    /\ sigStop = 0
    /\ subscribeOnBlock = 0
    /\ unsubscribeOnBlock = <<>>
    /\ blockSubscribers = {}
    /\ onBlockEvents = <<>>
    /\ subscribeOnTrx = 0
    /\ unsubscribeOnTrx = <<>>
    /\ trxSubscribers = {}
    /\ onTrxEvents = <<>>
    /\ runPc = "run"
    /\ events = [id \in IDs |-> <<>>]
    /\ uuids = 0
    /\ published = [c \in Classes |-> 0]
    /\ closePc = [c \in Closers |-> "idle"]
    /\ got = [id \in IDs |-> <<>>]
    /\ unsubCalled = {}

(***************************************************************************)
(* Callers and the repository feed: they only send on the channels          *)
(***************************************************************************)
SubscribeCalls == uuids + subscribeOnBlock + subscribeOnTrx

\* a bug: the caller writes the registry itself
OnBlock_WritesRegistry ==
    /\ SubscribeCalls < MaxSubs
    /\ uuids' = uuids + 1
    /\ blockSubscribers' = blockSubscribers \cup {uuids + 1}
    /\ UNCHANGED <<wg, sigStop, subscribeOnBlock, unsubscribeOnBlock,
                   onBlockEvents, subscribeOnTrx, unsubscribeOnTrx,
                   trxSubscribers, onTrxEvents, runPc, events, published,
                   closePc, got, unsubCalled>>

\* OnBlock: a new subscriptOnBlock with a fresh channel is sent to the loop
OnBlock ==
    /\ SubscribeCalls < MaxSubs
    /\ subscribeOnBlock < subscriptionQueueCapacity
    /\ subscribeOnBlock' = subscribeOnBlock + 1
    /\ UNCHANGED <<wg, sigStop, unsubscribeOnBlock, blockSubscribers,
                   onBlockEvents, subscribeOnTrx, unsubscribeOnTrx,
                   trxSubscribers, onTrxEvents, runPc, events, uuids,
                   published, closePc, got, unsubCalled>>

OnTransaction ==
    /\ SubscribeCalls < MaxSubs
    /\ subscribeOnTrx < subscriptionQueueCapacity
    /\ subscribeOnTrx' = subscribeOnTrx + 1
    /\ UNCHANGED <<wg, sigStop, subscribeOnBlock, unsubscribeOnBlock,
                   blockSubscribers, onBlockEvents, unsubscribeOnTrx,
                   trxSubscribers, onTrxEvents, runPc, events, uuids,
                   published, closePc, got, unsubCalled>>

\* Unsubscribe(block, id): the id is sent to the loop
UnsubscribeBlock(id) ==
    /\ Cardinality(unsubCalled) < MaxUnsubs
    /\ \A u \in unsubCalled : ~(u.class = "block" /\ u.id = id)
    /\ Len(unsubscribeOnBlock) < subscriptionQueueCapacity
    /\ unsubscribeOnBlock' = Append(unsubscribeOnBlock, id)
    /\ unsubCalled' = unsubCalled \cup
          {[class |-> "block", id |-> id, at |-> published["block"]]}
    /\ UNCHANGED <<wg, sigStop, subscribeOnBlock, blockSubscribers,
                   onBlockEvents, subscribeOnTrx, unsubscribeOnTrx,
                   trxSubscribers, onTrxEvents, runPc, events, uuids,
                   published, closePc, got>>

UnsubscribeTrx(id) ==
    /\ Cardinality(unsubCalled) < MaxUnsubs
    /\ \A u \in unsubCalled : ~(u.class = "trx" /\ u.id = id)
    /\ Len(unsubscribeOnTrx) < subscriptionQueueCapacity
    /\ unsubscribeOnTrx' = Append(unsubscribeOnTrx, id)
    /\ unsubCalled' = unsubCalled \cup
          {[class |-> "trx", id |-> id, at |-> published["trx"]]}
    /\ UNCHANGED <<wg, sigStop, subscribeOnBlock, unsubscribeOnBlock,
                   blockSubscribers, onBlockEvents, subscribeOnTrx,
                   trxSubscribers, onTrxEvents, runPc, events, uuids,
                   published, closePc, got>>

\* the repository feed sends the next block on the channel New registered
PublishBlock ==
    /\ published["block"] + published["trx"] < MaxEvents
    /\ Len(onBlockEvents) < onBlockChannelCapacity
    /\ published' = [published EXCEPT !["block"] = @ + 1]
    /\ onBlockEvents' = Append(onBlockEvents, published["block"] + 1)
    /\ UNCHANGED <<wg, sigStop, subscribeOnBlock, unsubscribeOnBlock,
                   blockSubscribers, subscribeOnTrx, unsubscribeOnTrx,
                   trxSubscribers, onTrxEvents, runPc, events, uuids,
                   closePc, got, unsubCalled>>

PublishTransaction ==
    /\ published["block"] + published["trx"] < MaxEvents
    /\ Len(onTrxEvents) < onBlockChannelCapacity
    /\ published' = [published EXCEPT !["trx"] = @ + 1]
    /\ onTrxEvents' = Append(onTrxEvents, published["trx"] + 1)
    /\ UNCHANGED <<wg, sigStop, subscribeOnBlock, unsubscribeOnBlock,
                   blockSubscribers, onBlockEvents, subscribeOnTrx,
                   unsubscribeOnTrx, trxSubscribers, runPc, events, uuids,
                   closePc, got, unsubCalled>>

\* the transport reads the next event from a subscriber's delivery channel
Consume(id) ==
    /\ events[id] # <<>>
    /\ events' = [events EXCEPT ![id] = Tail(@)]
    /\ UNCHANGED <<wg, sigStop, subscribeOnBlock, unsubscribeOnBlock,
                   blockSubscribers, onBlockEvents, subscribeOnTrx,
                   unsubscribeOnTrx, trxSubscribers, onTrxEvents, runPc,
                   uuids, published, closePc, got, unsubCalled>>

(***************************************************************************)
(* The handlers the loop calls                                               *)
(***************************************************************************)
\* the channels of reg that have room when the loop dispatches
Full(reg) == {id \in reg : Len(events[id]) >= deliveryCapacity}

\* non-blocking send of ev to every subscriber of reg; a full channel drops it
Dispatch(class, reg, n) ==
    /\ events' = [id \in IDs |->
                    IF id \in reg \ Full(reg)
                    THEN Append(events[id], <<class, n>>) ELSE events[id]]
    /\ got' = [id \in IDs |->
                 IF id \in reg \ Full(reg)
                 THEN Append(got[id], <<class, n>>) ELSE got[id]]

\* a bug: a blocking send, the loop waits for every channel
dispatchOnBlock_Blocking(evt) ==
    /\ Full(blockSubscribers) = {}
    /\ Dispatch("block", blockSubscribers, evt)

dispatchOnBlock(evt) == Dispatch("block", blockSubscribers, evt)

dispatchOnTransaction(evt) == Dispatch("trx", trxSubscribers, evt)

\* the subscriber is registered under a fresh uuid
addBlockSubscriber ==
    /\ uuids' = uuids + 1
    /\ blockSubscribers' = blockSubscribers \cup {uuids + 1}

addTrxSubscriber ==
    /\ uuids' = uuids + 1
    /\ trxSubscribers' = trxSubscribers \cup {uuids + 1}

\* a bug: the loop takes the stop signal, signs off and goes on
RunSigStop_GoesOn ==
    /\ runPc = "run"
    /\ sigStop > 0
    /\ sigStop' = sigStop - 1
    /\ wg' = wg - 1
    /\ UNCHANGED <<subscribeOnBlock, unsubscribeOnBlock, blockSubscribers,
                   onBlockEvents, subscribeOnTrx, unsubscribeOnTrx,
                   trxSubscribers, onTrxEvents, runPc, events, uuids,
                   published, closePc, got, unsubCalled>>

(***************************************************************************)
(* rootResolver.run: one action per case of the select                      *)
(***************************************************************************)
RunSigStop ==
    /\ runPc = "run"
    /\ sigStop > 0
    /\ sigStop' = sigStop - 1
    /\ runPc' = "done"
    /\ wg' = wg - 1
    /\ UNCHANGED <<subscribeOnBlock, unsubscribeOnBlock, blockSubscribers,
                   onBlockEvents, subscribeOnTrx, unsubscribeOnTrx,
                   trxSubscribers, onTrxEvents, events, uuids, published,
                   closePc, got, unsubCalled>>

\* a bug: the id is received and not deleted
RunUnsubscribeOnBlock_NoDelete ==
    /\ runPc = "run"
    /\ unsubscribeOnBlock # <<>>
    /\ unsubscribeOnBlock' = Tail(unsubscribeOnBlock)
    /\ UNCHANGED <<wg, sigStop, subscribeOnBlock, blockSubscribers,
                   onBlockEvents, subscribeOnTrx, unsubscribeOnTrx,
                   trxSubscribers, onTrxEvents, runPc, events, uuids,
                   published, closePc, got, unsubCalled>>

RunUnsubscribeOnBlock ==
    /\ runPc = "run"
    /\ unsubscribeOnBlock # <<>>
    /\ unsubscribeOnBlock' = Tail(unsubscribeOnBlock)
    /\ blockSubscribers' = blockSubscribers \ {Head(unsubscribeOnBlock)}
    /\ UNCHANGED <<wg, sigStop, subscribeOnBlock, onBlockEvents,
                   subscribeOnTrx, unsubscribeOnTrx, trxSubscribers,
                   onTrxEvents, runPc, events, uuids, published, closePc,
                   got, unsubCalled>>

RunUnsubscribeOnTrx ==
    /\ runPc = "run"
    /\ unsubscribeOnTrx # <<>>
    /\ unsubscribeOnTrx' = Tail(unsubscribeOnTrx)
    /\ trxSubscribers' = trxSubscribers \ {Head(unsubscribeOnTrx)}
    /\ UNCHANGED <<wg, sigStop, subscribeOnBlock, unsubscribeOnBlock,
                   blockSubscribers, onBlockEvents, subscribeOnTrx,
                   onTrxEvents, runPc, events, uuids, published, closePc,
                   got, unsubCalled>>

RunSubscribeOnBlock ==
    /\ runPc = "run"
    /\ subscribeOnBlock > 0
    /\ subscribeOnBlock' = subscribeOnBlock - 1
    /\ addBlockSubscriber
    /\ UNCHANGED <<wg, sigStop, unsubscribeOnBlock, onBlockEvents,
                   subscribeOnTrx, unsubscribeOnTrx, trxSubscribers,
                   onTrxEvents, runPc, events, published, closePc, got, unsubCalled>>

\* a bug: a transaction subscriber is put into the registry of the blocks
RunSubscribeOnTrx_WrongRegistry ==
    /\ runPc = "run"
    /\ subscribeOnTrx > 0
    /\ subscribeOnTrx' = subscribeOnTrx - 1
    /\ addBlockSubscriber
    /\ UNCHANGED <<wg, sigStop, subscribeOnBlock, unsubscribeOnBlock,
                   trxSubscribers, onBlockEvents, unsubscribeOnTrx,
                   onTrxEvents, runPc, events, published, closePc, got,
                   unsubCalled>>

RunSubscribeOnTrx ==
    /\ runPc = "run"
    /\ subscribeOnTrx > 0
    /\ subscribeOnTrx' = subscribeOnTrx - 1
    /\ addTrxSubscriber
    /\ UNCHANGED <<wg, sigStop, subscribeOnBlock, unsubscribeOnBlock,
                   blockSubscribers, onBlockEvents, unsubscribeOnTrx,
                   onTrxEvents, runPc, events, published, closePc, got, unsubCalled>>

\* a bug: the loop takes the newest event of the channel
RunOnBlockEvents_TakesLast ==
    /\ runPc = "run"
    /\ onBlockEvents # <<>>
    /\ onBlockEvents' = SubSeq(onBlockEvents, 1, Len(onBlockEvents) - 1)
    /\ dispatchOnBlock(onBlockEvents[Len(onBlockEvents)])
    /\ UNCHANGED <<wg, sigStop, subscribeOnBlock, unsubscribeOnBlock,
                   blockSubscribers, subscribeOnTrx, unsubscribeOnTrx,
                   trxSubscribers, onTrxEvents, runPc, uuids, published,
                   closePc, unsubCalled>>

\* a bug: the event is dispatched and left on the channel
RunOnBlockEvents_Peek ==
    /\ runPc = "run"
    /\ onBlockEvents # <<>>
    /\ dispatchOnBlock(Head(onBlockEvents))
    /\ UNCHANGED <<wg, sigStop, subscribeOnBlock, unsubscribeOnBlock,
                   blockSubscribers, onBlockEvents, subscribeOnTrx,
                   unsubscribeOnTrx, trxSubscribers, onTrxEvents, runPc,
                   uuids, published, closePc, unsubCalled>>

RunOnBlockEvents ==
    /\ runPc = "run"
    /\ onBlockEvents # <<>>
    /\ onBlockEvents' = Tail(onBlockEvents)
    /\ dispatchOnBlock(Head(onBlockEvents))
    /\ UNCHANGED <<wg, sigStop, subscribeOnBlock, unsubscribeOnBlock,
                   blockSubscribers, subscribeOnTrx, unsubscribeOnTrx,
                   trxSubscribers, onTrxEvents, runPc, uuids, published,
                   closePc, unsubCalled>>

RunOnTrxEvents ==
    /\ runPc = "run"
    /\ onTrxEvents # <<>>
    /\ onTrxEvents' = Tail(onTrxEvents)
    /\ dispatchOnTransaction(Head(onTrxEvents))
    /\ UNCHANGED <<wg, sigStop, subscribeOnBlock, unsubscribeOnBlock,
                   blockSubscribers, onBlockEvents, subscribeOnTrx,
                   unsubscribeOnTrx, trxSubscribers, runPc, uuids, published,
                   closePc, unsubCalled>>

\* the cases of the select other than the stop signal
runLive ==
    \/ RunUnsubscribeOnBlock
    \/ RunUnsubscribeOnTrx
    \/ RunSubscribeOnBlock
    \/ RunSubscribeOnTrx
    \/ RunOnBlockEvents
    \/ RunOnTrxEvents

run == RunSigStop \/ runLive

(***************************************************************************)
(* rootResolver.Close                                                        *)
(***************************************************************************)
\* a bug: the stop channel has no buffer, the send waits for the loop
CloseSend_Unbuffered(c) ==
    /\ closePc[c] = "idle"
    /\ runPc = "run"
    /\ runPc' = "done"
    /\ wg' = wg - 1
    /\ closePc' = [closePc EXCEPT ![c] = "wait"]
    /\ UNCHANGED <<sigStop, subscribeOnBlock, unsubscribeOnBlock,
                   blockSubscribers, onBlockEvents, subscribeOnTrx,
                   unsubscribeOnTrx, trxSubscribers, onTrxEvents, events,
                   uuids, published, got, unsubCalled>>

\* rs.sigStop <- true
CloseSend(c) ==
    /\ closePc[c] = "idle"
    /\ sigStop < sigStopCapacity
    /\ sigStop' = sigStop + 1
    /\ closePc' = [closePc EXCEPT ![c] = "wait"]
    /\ UNCHANGED <<wg, subscribeOnBlock, unsubscribeOnBlock, blockSubscribers,
                   onBlockEvents, subscribeOnTrx, unsubscribeOnTrx,
                   trxSubscribers, onTrxEvents, runPc, events, uuids,
                   published, got, unsubCalled>>

\* a bug: Close returns without waiting for the loop
CloseWait_NoWait(c) ==
    /\ closePc[c] = "wait"
    /\ closePc' = [closePc EXCEPT ![c] = "closed"]
    /\ UNCHANGED <<wg, sigStop, subscribeOnBlock, unsubscribeOnBlock,
                   blockSubscribers, onBlockEvents, subscribeOnTrx,
                   unsubscribeOnTrx, trxSubscribers, onTrxEvents, runPc,
                   events, uuids, published, got, unsubCalled>>

\* rs.wg.Wait()
CloseWait(c) ==
    /\ closePc[c] = "wait"
    /\ wg = 0
    /\ closePc' = [closePc EXCEPT ![c] = "closed"]
    /\ UNCHANGED <<wg, sigStop, subscribeOnBlock, unsubscribeOnBlock,
                   blockSubscribers, onBlockEvents, subscribeOnTrx,
                   unsubscribeOnTrx, trxSubscribers, onTrxEvents, runPc,
                   events, uuids, published, got, unsubCalled>>

Close(c) == CloseSend(c) \/ CloseWait(c)

\* the caller of Close that is ApiServer.Stop
StopCloser == CHOOSE c \in Closers : \A d \in Closers : c <= d


(***************************************************************************)
(* Contract validation: values                                               *)
(***************************************************************************)
\* number of validation requests over a run
MaxReqs == 2
\* number of artefacts a compilation returns at most
MaxArtefacts == 2

Reqs == 1..MaxReqs

\* contract addresses, as their hex digits
Addrs == {<<10, 11>>, <<10, 12>>}
\* deployed input data and compiled byte codes
Codes == {1, 2}

LowerDigits ==
    <<"0", "1", "2", "3", "4", "5", "6", "7", "8", "9",
      "a", "b", "c", "d", "e", "f">>

UpperDigits ==
    <<"0", "1", "2", "3", "4", "5", "6", "7", "8", "9",
      "A", "B", "C", "D", "E", "F">>

\* common.Address.String: the checksummed hex; the case of a digit follows a
\* hash of the address, here the parity of its digit sum and position
ChecksumString(a) ==
    <<"0", "x">> \o
    [i \in 1..Len(a) |->
        IF (a[1] + a[2] + i) % 2 = 0
        THEN UpperDigits[a[i] + 1] ELSE LowerDigits[a[i] + 1]]

\* types.Address.String: the plain hex
HexString(a) ==
    <<"0", "x">> \o [i \in 1..Len(a) |-> LowerDigits[a[i] + 1]]

\* unicode simple case folding of one character
Fold(ch) ==
    IF \E i \in 1..16 : UpperDigits[i] = ch
    THEN LowerDigits[CHOOSE i \in 1..16 : UpperDigits[i] = ch]
    ELSE ch

\* strings.EqualFold
EqualFold(s, t) ==
    /\ Len(s) = Len(t)
    /\ \A i \in 1..Len(s) : Fold(s[i]) = Fold(t[i])

\* a nil error, a nil *common.Address, a nil *Contract
Nil == "nil"
NilAddress == <<>>
NoContract == [Address |-> NilAddress, Validated |-> FALSE, Artefact |-> 0]
\* a local variable not assigned yet
None == [err |-> "none"]

ErrNotFound == "transaction not found"
ErrInvalid == "invalid contract details"
ErrNoMatch == "deployed contract does not match the source code provided"
ErrPersist == "can not update contract"
CompileErrors == {"compiler: syntax error", "compiler: unknown version"}

\* what repo.Transaction may return: an error, or a transaction
Transactions ==
    {[err |-> ErrNotFound]} \cup
    [err : {Nil}, ContractAddress : Addrs \cup {NilAddress}, InputData : Codes]

\* what Compile may return: an error, or the artefacts in compiler order;
\* the contracts of one compilation differ in their byte code
ArtefactLists ==
    {l \in UNION {[1..n -> Codes] : n \in 0..MaxArtefacts} :
        \A i, j \in 1..Len(l) : l[i] = l[j] => i = j}

Compilations ==
    [err : CompileErrors] \cup [err : {Nil}, list : ArtefactLists]

\* MatchArtefact: the first artefact whose byte code is the deployed input
\* data, or none
MatchArtefact(list, input) ==
    IF \E i \in 1..Len(list) : list[i] = input
    THEN CHOOSE i \in 1..Len(list) :
            /\ list[i] = input
            /\ \A j \in 1..(i - 1) : list[j] # input
    ELSE 0

NoValidation ==
    /\ vPc = [r \in Reqs |-> "idle"]
    /\ sc = [r \in Reqs |-> NoContract]
    /\ tx = [r \in Reqs |-> None]
    /\ artefacts = [r \in Reqs |-> None]
    /\ result = [r \in Reqs |-> None]
    /\ joined = [r \in Reqs |-> 0]
    /\ flight = [a \in Addrs |-> 0]
    /\ validated = [a \in Addrs |-> FALSE]
    /\ synced = {}
    /\ ran = [r \in Reqs |-> {}]

(***************************************************************************)
(* Peer validation sync: values                                              *)
(***************************************************************************)
\* number of configured peers at most
MaxPeers == 2

AllPeers == 1..MaxPeers
Peers == 1..peerCount

\* what a peer does with a complete request: it answers a status, it does
\* not answer (transport error or timeout), or its url cannot be parsed
StatusOK == 200
StatusError == 500
NoAnswer == 0
BadURL == 1
Answers == {StatusOK, StatusError, NoAnswer, BadURL}

contractSyncMutationQuery == "mutation"

\* constructMutationPayload: the query and the variables of the contract,
\* encoded into a buffer; the buffer is a sequence of the pieces one Read
\* hands out, and the encoded mutation fits one Read of the transport
constructMutationPayload(con) ==
    [buf |-> <<[query |-> contractSyncMutationQuery,
                variables |-> [sc |-> con.Address]]>>,
     err |-> Nil]

\* no call of syncContract yet
NoSync ==
    /\ syncPc = "idle"
    /\ launched = 0
    /\ syncWg = 0
    /\ payload = <<>>
    /\ aPc = [p \in AllPeers |-> "none"]
    /\ aLen = [p \in AllPeers |-> 0]
    /\ aBody = [p \in AllPeers |-> <<>>]
    /\ received = [p \in AllPeers |-> <<>>]
    /\ outcome = [p \in AllPeers |-> "none"]
    /\ cancels = [p \in AllPeers |-> 0]
    /\ dones = [p \in AllPeers |-> 0]

\* a server without peers
NoPeers ==
    /\ peerCount = 0
    /\ answers = [p \in AllPeers |-> StatusOK]

\* any configuration of peers
SomePeers ==
    /\ peerCount \in 0..MaxPeers
    /\ answers \in [AllPeers -> Answers]
    /\ \A p \in AllPeers : p > peerCount => answers[p] = StatusOK

(***************************************************************************)
(* The transaction flow updater and the process: values                     *)
(***************************************************************************)
\* ticks the scheduler loop takes over a run
MaxTicks == 2
\* values the transaction count may have
MaxCount == 2

Counts == 1..MaxCount
\* capacity of the signal channel of setupSignals
tsCapacity == 1
\* capacity of a service's stop channel
svcSigStopCapacity == 1
\* no estimate cached yet
NoEstimate == 0

ErrFlow == "can not update trx flow"
ErrCount == "can not update trx count estimation"

\* NewTxFlowUpdater: the service is made and not run yet; the process serves
NewServices ==
    /\ schedPc = "new"
    /\ flowTicker = "none"
    /\ trxCountTicker = "none"
    /\ svcWg = 0
    /\ svcSigStop = 0
    /\ svcDones = 0
    /\ reading = 0
    /\ writing = [v \in Counts |-> 0]
    /\ estimate = NoEstimate
    /\ ticks = 0
    /\ failures = 0
    /\ rollups = 0
    /\ ts = 0
    /\ stopPc = "serving"
    /\ cvClosed = FALSE

(***************************************************************************)
(* Functions of the resolvers and of the repository: values                 *)
(***************************************************************************)
\* how far beyond the list limit the counts asked for go, on both sides
MaxBeyondLimit == 30

listMaxEdgesPerRequest == 100

MinInt32 == -2147483647 - 1
MaxInt32 == 2147483647

\* a uint32 as its two 16 bit halves
Half == 65536
Uint32OfNat(n) == [hi |-> n \div Half, lo |-> n % Half]

\* uint32(x) of an int32 x: the same 32 bits
Uint32(x) ==
    IF x >= 0
    THEN Uint32OfNat(x)
    ELSE [hi |-> ((x - MinInt32) \div Half) + Half \div 2,
          lo |-> (x - MinInt32) % Half]

\* int32(u) of a uint32 u: the same 32 bits
Int32(u) ==
    IF u.hi < Half \div 2
    THEN u.hi * Half + u.lo
    ELSE MinInt32 + ((u.hi - Half \div 2) * Half + u.lo)

\* a < b for uint32
Less32(a, b) == a.hi < b.hi \/ (a.hi = b.hi /\ a.lo < b.lo)

\* -x for an int32 x, which wraps for the least value
Neg32(x) == IF x = MinInt32 THEN MinInt32 ELSE -x

\* the counts a client may ask for: all around zero and both limits, and the
\* ends of the int32 range
Counts32 ==
    (-(listMaxEdgesPerRequest + MaxBeyondLimit)
        ..(listMaxEdgesPerRequest + MaxBeyondLimit))
    \cup {MinInt32, MinInt32 + 1, MaxInt32 - 1, MaxInt32}

\* how far from 1, from the list limit, from 2^31 and from 2^32 the limits go
MaxNearLimit == 2

\* the limits listLimitCount may be given: the least ones, those around the
\* list limit, those on both sides of 2^31 and the greatest ones
Limits32 ==
    {Uint32OfNat(n) :
        n \in (1..MaxNearLimit)
                \cup ((listMaxEdgesPerRequest - MaxNearLimit)
                        ..(listMaxEdgesPerRequest + MaxNearLimit))}
    \cup {Uint32OfNat(MaxInt32 - k) : k \in 0..MaxNearLimit}
    \cup {[hi |-> Half \div 2, lo |-> k] : k \in 0..MaxNearLimit}
    \cup {[hi |-> Half - 1, lo |-> Half - k] : k \in 1..MaxNearLimit}

\* listLimitCount has not been called
NoListLimit ==
    /\ count = 0
    /\ llLimit = Uint32OfNat(listMaxEdgesPerRequest)
    /\ llReturned = FALSE
    /\ llResult = 0

\* seconds of a day
Day == 86400
Second == 1000000000

\* a time.Time in UTC: seconds since the epoch and nanoseconds
Time(d, h, m, s, ns) == [sec |-> d * Day + h * 3600 + m * 60 + s, nsec |-> ns]
Midnight(d) == Time(d, 0, 0, 0, 0)

\* number of transactions in the collection at most
MaxTrx == 2
\* number of rollups over a run
MaxRuns == 2
\* the last day, counted from the epoch, on which a rollup runs
LastDay == 3

\* times of day at which a transaction is stamped or a tick fires
Clocks ==
    {[h |-> 0, m |-> 0, s |-> 0, ns |-> 0],
     [h |-> 12, m |-> 34, s |-> 56, ns |-> 500],
     [h |-> 23, m |-> 59, s |-> 59, ns |-> Second - 1]}
Times(days) == {Time(d, c.h, c.m, c.s, c.ns) : d \in days, c \in Clocks}
\* the first and the last moment of each of the days
Ends(days) ==
    {Time(d, c.h, c.m, c.s, c.ns) :
        d \in days, c \in {e \in Clocks : e.h # 12}}

\* transaction i of the collection moves the amount i with the gas 10 + i;
\* its time stamp is the first or the last moment of a day up to the last
Collections ==
    UNION {{t \in [1..n -> [stamp : Ends(0..LastDay), amo : 1..MaxTrx,
                            gas_use : 11..(10 + MaxTrx)]] :
               \A i \in 1..n : t[i].amo = i /\ t[i].gas_use = 10 + i} :
           n \in 0..MaxTrx}

\* no rollup has run
NoRollup ==
    /\ trxVolume = <<>>
    /\ flowFrom = Midnight(0)
    /\ flowRuns = 0
    /\ firstVolume = <<>>

\* number of byte patterns the random source is tried with
MaxPatterns == 2

ErrRand == "unexpected EOF"

\* the bytes of pattern k
Pattern(k) == [i \in 1..16 |-> (k * 255 + (i - 1) * 17 * k) % 256]
\* bytes at the ends of the ranges of both nibbles and of the top bits
EdgeBytes == {0, 15, 63, 64, 79, 127, 128, 191, 192, 240, 255}

\* what the random source may hand out: sixteen bytes, where uuid[6] or
\* uuid[8] is any byte and the other an edge byte, or fewer with an error
Randoms ==
    {[buf |-> [Pattern(k) EXCEPT ![7] = b[1], ![9] = b[2]],
      n |-> 16, err |-> Nil] :
        k \in 0..(MaxPatterns - 1),
        b \in ((0..255) \X EdgeBytes) \cup (EdgeBytes \X (0..255))}
    \cup
    {[buf |-> [i \in 1..16 |-> IF i <= n THEN Pattern(k)[i] ELSE 0],
      n |-> n, err |-> ErrRand] :
        k \in 0..(MaxPatterns - 1), n \in {0, 1, 15}}

\* uuid has not been called
NoUuid ==
    /\ random = [buf |-> Pattern(0), n |-> 16, err |-> Nil]
    /\ uuidReturned = FALSE
    /\ uuidResult = [str |-> <<>>, err |-> Nil]

\* no function has been called
\* number of goroutines that call AddAccount
MaxAccountCalls == 3
AccountCallers == 1..MaxAccountCalls

\* the sync.Once the bridge is made with
Once == "once"
ErrInsert == "can not insert new account"

\* the bridge as it is made: the handle is set, nothing has run
NewBridge ==
    /\ initAccounts = Once
    /\ onceDone = FALSE
    /\ onceM = 0
    /\ inits = 0
    /\ nilDo = 0
    /\ accPc = [c \in AccountCallers |-> "idle"]

ErrRange == "invalid time range requested"
ErrNoRow == "gas speed aggregation failure"
ErrAggregate == "can not collect gas speed"
ErrDecode == "can not decode gas speed cursor"

\* the float64 0.0 returned with an error; a speed is kept as the gas volume
\* and the duration it is divided by
NoSpeed == [volume |-> 0, per |-> [sec |-> 0, nsec |-> 0]]

\* the ends of the ranges TrxGasSpeed is asked for
GasRangeEnds == Times(1..2)

\* TrxGasSpeed has not been called
NoGasSpeed ==
    /\ gsFrom = Midnight(0)
    /\ gsTo = Midnight(0)
    /\ gsReturned = FALSE
    /\ gsResult = [val |-> NoSpeed, err |-> Nil]
    /\ aggregations = 0

NoBridgeCalls == NewBridge /\ NoGasSpeed

NoCalls ==
    /\ NoListLimit
    /\ now = Midnight(2)
    /\ transactions = <<>>
    /\ NoRollup
    /\ NoUuid
    /\ NoBridgeCalls

(***************************************************************************)
(* The resolver's ValidateContract: the pipeline behind the single-flight   *)
(* group rs.cg, keyed by the contract address                               *)
(***************************************************************************)
\* a bug: every call runs the pipeline, whether one is in flight or not
Do_NoCoalescing(r, a) ==
    /\ vPc[r] = "idle"
    /\ sc' = [sc EXCEPT ![r] = [NoContract EXCEPT !.Address = a]]
    /\ flight' = [flight EXCEPT ![a] = r]
    /\ vPc' = [vPc EXCEPT ![r] = "deployment"]
    /\ UNCHANGED <<joined, tx, artefacts, result, validated, synced, ran>>

\* cg.Do(address, ...): the first call for a key runs the pipeline, a call
\* that finds one in flight waits for it
Do(r, a) ==
    /\ vPc[r] = "idle"
    /\ sc' = [sc EXCEPT ![r] = [NoContract EXCEPT !.Address = a]]
    /\ IF flight[a] = 0
       THEN /\ flight' = [flight EXCEPT ![a] = r]
            /\ vPc' = [vPc EXCEPT ![r] = "deployment"]
            /\ UNCHANGED joined
       ELSE /\ joined' = [joined EXCEPT ![r] = flight[a]]
            /\ vPc' = [vPc EXCEPT ![r] = "wait"]
            /\ UNCHANGED flight
    /\ UNCHANGED <<tx, artefacts, result, validated, synced, ran>>

\* the pipeline has returned and its locals are gone: the result is handed to
\* the waiting calls and the key leaves the group
DoCleanup(r) ==
    /\ vPc[r] = "cleanup"
    /\ flight' = [flight EXCEPT ![sc[r].Address] = 0]
    /\ vPc' = [vPc EXCEPT ![r] = "return"]
    /\ tx' = [tx EXCEPT ![r] = None]
    /\ artefacts' = [artefacts EXCEPT ![r] = None]
    /\ UNCHANGED <<sc, result, joined, validated, synced, ran>>

\* a waiting call wakes up with the result of the flight it joined
DoWait(r) ==
    /\ vPc[r] = "wait"
    /\ vPc[joined[r]] \in {"return", "done"}
    /\ result' = [result EXCEPT ![r] = result[joined[r]]]
    /\ vPc' = [vPc EXCEPT ![r] = "return"]
    /\ UNCHANGED <<sc, tx, artefacts, joined, flight, validated, synced, ran>>

\* the resolver returns to its caller
Return(r) ==
    /\ vPc[r] = "return"
    /\ vPc' = [vPc EXCEPT ![r] = "done"]
    /\ UNCHANGED <<sc, tx, artefacts, result, joined, flight, validated,
                   synced, ran>>

\* ValidateContract returns err
Fail(r, err) ==
    /\ result' = [result EXCEPT ![r] = [contract |-> NoContract, err |-> err]]
    /\ vPc' = [vPc EXCEPT ![r] = "cleanup"]

(***************************************************************************)
(* ContractValidator.ValidateContract                                        *)
(***************************************************************************)
\* is this the expected contract?
IsExpectedContract(t, c) ==
    /\ t.ContractAddress # NilAddress
    /\ EqualFold(ChecksumString(t.ContractAddress), HexString(c.Address))

\* a bug: the deployment is not compared with the contract's address
VcDeployment_NoAddressCheck(r) ==
    /\ vPc[r] = "deployment"
    /\ \E t \in Transactions :
          /\ tx' = [tx EXCEPT ![r] = t]
          /\ IF t.err # Nil
             THEN Fail(r, t.err)
             ELSE /\ vPc' = [vPc EXCEPT ![r] = "compile"]
                  /\ UNCHANGED result
    /\ UNCHANGED <<sc, artefacts, joined, flight, validated, synced, ran>>

\* get the deployment transaction and check it against the contract
VcDeployment(r) ==
    /\ vPc[r] = "deployment"
    /\ \E t \in Transactions :
          /\ tx' = [tx EXCEPT ![r] = t]
          /\ IF t.err # Nil
             THEN Fail(r, t.err)
             ELSE IF ~IsExpectedContract(t, sc[r])
                  THEN Fail(r, ErrInvalid)
                  ELSE /\ vPc' = [vPc EXCEPT ![r] = "compile"]
                       /\ UNCHANGED result
    /\ UNCHANGED <<sc, artefacts, joined, flight, validated, synced, ran>>

\* a bug: the compiler's error is replaced by one of the validator
VcCompile_OwnError(r) ==
    /\ vPc[r] = "compile"
    /\ ran' = [ran EXCEPT ![r] = @ \cup {"compile"}]
    /\ \E c \in Compilations :
          /\ artefacts' = [artefacts EXCEPT ![r] = c]
          /\ IF c.err # Nil
             THEN Fail(r, "compilation failed")
             ELSE /\ vPc' = [vPc EXCEPT ![r] = "match"]
                  /\ UNCHANGED result
    /\ UNCHANGED <<sc, tx, joined, flight, validated, synced>>

\* try to compile the source code provided with the contract
VcCompile(r) ==
    /\ vPc[r] = "compile"
    /\ ran' = [ran EXCEPT ![r] = @ \cup {"compile"}]
    /\ \E c \in Compilations :
          /\ artefacts' = [artefacts EXCEPT ![r] = c]
          /\ IF c.err # Nil
             THEN Fail(r, c.err)
             ELSE /\ vPc' = [vPc EXCEPT ![r] = "match"]
                  /\ UNCHANGED result
    /\ UNCHANGED <<sc, tx, joined, flight, validated, synced>>

\* a bug: the result of the comparison is not looked at
VcMatch_IgnoresMismatch(r) ==
    /\ vPc[r] = "match"
    /\ ran' = [ran EXCEPT ![r] = @ \cup {"match"}]
    /\ vPc' = [vPc EXCEPT ![r] = "mark"]
    /\ UNCHANGED <<sc, tx, artefacts, result, joined, flight, validated,
                   synced>>

\* a bug: a contract whose source does not match is stored as not validated
VcMatch_Unvalidates(r) ==
    /\ vPc[r] = "match"
    /\ ran' = [ran EXCEPT ![r] = @ \cup {"match"}]
    /\ IF MatchArtefact(artefacts[r].list, tx[r].InputData) = 0
       THEN /\ Fail(r, ErrNoMatch)
            /\ validated' = [validated EXCEPT ![sc[r].Address] = FALSE]
       ELSE /\ vPc' = [vPc EXCEPT ![r] = "mark"]
            /\ UNCHANGED <<result, validated>>
    /\ UNCHANGED <<sc, tx, artefacts, joined, flight, synced>>

\* compare artefacts with the deployed contract
VcMatch(r) ==
    /\ vPc[r] = "match"
    /\ ran' = [ran EXCEPT ![r] = @ \cup {"match"}]
    /\ IF MatchArtefact(artefacts[r].list, tx[r].InputData) = 0
       THEN Fail(r, ErrNoMatch)
       ELSE /\ vPc' = [vPc EXCEPT ![r] = "mark"]
            /\ UNCHANGED result
    /\ UNCHANGED <<sc, tx, artefacts, joined, flight, validated, synced>>

\* MarkValidated: the contract takes the details of the artefact and is marked
\* validated, then the repository is updated; err is what the write returns
MarkValidated(r, art, err) ==
    /\ sc' = [sc EXCEPT ![r].Validated = TRUE]
    /\ IF err = Nil
       THEN /\ validated' = [validated EXCEPT ![sc[r].Address] = TRUE]
            /\ ran' = [ran EXCEPT ![r] = @ \cup {"mark"}]
       ELSE /\ ran' = [ran EXCEPT ![r] = @ \cup {"mark", "mark failed"}]
            /\ UNCHANGED validated

\* what the resolver hands out for a validated contract
Success(r, art) ==
    [contract |-> [Address |-> sc[r].Address, Validated |-> TRUE,
                   Artefact |-> art],
     err |-> Nil]

\* a bug: the error of the write is dropped
VcMark_DropsError(r) ==
    /\ vPc[r] = "mark"
    /\ \E err \in {Nil, ErrPersist} :
          /\ MarkValidated(r, MatchArtefact(artefacts[r].list,
                                            tx[r].InputData), err)
          /\ result' = [result EXCEPT ![r] =
                Success(r, MatchArtefact(artefacts[r].list,
                                           tx[r].InputData))]
          /\ vPc' = [vPc EXCEPT ![r] = "sync"]
    /\ UNCHANGED <<tx, artefacts, joined, flight, synced>>

\* mark the contract as validated with the artefact found, and return what
\* MarkValidated returns
VcMark(r) ==
    /\ vPc[r] = "mark"
    /\ \E err \in {Nil, ErrPersist} :
          /\ MarkValidated(r, MatchArtefact(artefacts[r].list,
                                            tx[r].InputData), err)
          /\ IF err = Nil
             THEN /\ result' = [result EXCEPT ![r] =
                        Success(r, MatchArtefact(artefacts[r].list,
                                                   tx[r].InputData))]
                  /\ vPc' = [vPc EXCEPT ![r] = "sync"]
             ELSE Fail(r, err)
    /\ UNCHANGED <<tx, artefacts, joined, flight, synced>>

\* a bug: the sync is called, not started, and the pipeline waits for it
StartSync_Synchronous(r) ==
    /\ vPc[r] = "sync"
    /\ \/ /\ r \notin synced
          /\ synced' = synced \cup {r}
          /\ ran' = [ran EXCEPT ![r] = @ \cup {"sync"}]
          /\ UNCHANGED vPc
       \/ /\ r \in synced
          /\ syncPc = "returned"
          /\ vPc' = [vPc EXCEPT ![r] = "cleanup"]
          /\ UNCHANGED <<synced, ran>>
    /\ UNCHANGED <<sc, tx, artefacts, result, joined, flight, validated>>

\* on success the resolver starts the peer sync in its own goroutine
StartSync(r) ==
    /\ vPc[r] = "sync"
    /\ synced' = synced \cup {r}
    /\ ran' = [ran EXCEPT ![r] = @ \cup {"sync"}]
    /\ vPc' = [vPc EXCEPT ![r] = "cleanup"]
    /\ UNCHANGED <<sc, tx, artefacts, result, joined, flight, validated>>

ValidateContract(r) == VcDeployment(r) \/ VcCompile(r) \/ VcMatch(r) \/ VcMark(r)

InitValidator == NewResolver /\ NoValidation /\ NoSync /\ NoPeers /\ NewServices
    /\ NoCalls

NextValidator ==
    /\ \E r \in Reqs :
          \/ \E a \in Addrs : Do(r, a)
          \/ ValidateContract(r)
          \/ StartSync(r)
          \/ DoCleanup(r)
          \/ DoWait(r)
          \/ Return(r)
    /\ UNCHANGED <<bvars, svars, uvars, fvars, gvars>>

SpecValidator == InitValidator /\ [][NextValidator]_vars

(***************************************************************************)
(* rootResolver.syncContract                                                 *)
(***************************************************************************)
\* the request whose validation starts the sync
FirstReq == CHOOSE r \in Reqs : \A q \in Reqs : r <= q

\* the goroutine starts: no peers, or the payload is constructed
SyncBegin ==
    /\ syncPc = "idle"
    /\ FirstReq \in synced
    /\ IF peerCount <= 0
       THEN /\ syncPc' = "returned"
            /\ UNCHANGED payload
       ELSE IF constructMutationPayload(result[FirstReq].contract).err # Nil
            THEN /\ syncPc' = "returned"
                 /\ UNCHANGED payload
            ELSE /\ payload' =
                       constructMutationPayload(result[FirstReq].contract).buf
                 /\ syncPc' = "loop"
    /\ UNCHANGED <<peerCount, answers, launched, syncWg, aPc, aLen, aBody,
                   received, outcome, cancels, dones>>

\* loop over the peers: wg.Add(1); go syncContractToPeer(&payload, peer, ...)
SyncLaunch ==
    /\ syncPc = "loop"
    /\ launched < peerCount
    /\ syncWg' = syncWg + 1
    /\ launched' = launched + 1
    /\ aPc' = [aPc EXCEPT ![launched + 1] = "start"]
    /\ UNCHANGED <<peerCount, answers, syncPc, payload, aLen, aBody, received,
                   outcome, cancels, dones>>

\* the loop is over
SyncLoopEnd ==
    /\ syncPc = "loop"
    /\ launched >= peerCount
    /\ syncPc' = "wait"
    /\ UNCHANGED <<peerCount, answers, launched, syncWg, payload, aPc, aLen,
                   aBody, received, outcome, cancels, dones>>

\* a bug: the call does not wait for its attempts
SyncWait_NoWait ==
    /\ syncPc = "wait"
    /\ syncPc' = "returned"
    /\ UNCHANGED <<peerCount, answers, launched, syncWg, payload, aPc, aLen,
                   aBody, received, outcome, cancels, dones>>

\* wg.Wait()
SyncWait ==
    /\ syncPc = "wait"
    /\ syncWg = 0
    /\ syncPc' = "returned"
    /\ UNCHANGED <<peerCount, answers, launched, syncWg, payload, aPc, aLen,
                   aBody, received, outcome, cancels, dones>>

syncContract == SyncBegin \/ SyncLaunch \/ SyncLoopEnd \/ SyncWait

(***************************************************************************)
(* syncContractToPeer, one goroutine per peer; all of them hold the pointer  *)
(* to the one payload buffer of the call                                     *)
(***************************************************************************)
Min(a, b) == IF a <= b THEN a ELSE b

\* the attempt ends with outcome o; the deferred function is still to run
AttemptReturn(p, o) ==
    /\ outcome' = [outcome EXCEPT ![p] = o]
    /\ aPc' = [aPc EXCEPT ![p] = "exit"]
    /\ aLen' = [aLen EXCEPT ![p] = 0]
    /\ aBody' = [aBody EXCEPT ![p] = <<>>]

\* a bug: the attempt signs off only after the request could be created
AttemptRequest_LateDefer(p) ==
    /\ aPc[p] = "start"
    /\ IF answers[p] = BadURL
       THEN /\ outcome' = [outcome EXCEPT ![p] = "no request"]
            /\ aPc' = [aPc EXCEPT ![p] = "done"]
            /\ UNCHANGED <<aLen, aBody>>
       ELSE /\ aLen' = [aLen EXCEPT ![p] = Len(payload)]
            /\ aPc' = [aPc EXCEPT ![p] = "send"]
            /\ UNCHANGED <<aBody, outcome>>
    /\ UNCHANGED <<peerCount, answers, syncPc, launched, syncWg, payload,
                   received, cancels, dones>>

\* context.WithTimeout, defer, http.NewRequestWithContext: the request takes
\* its ContentLength from the bytes the buffer holds at this moment
AttemptRequest(p) ==
    /\ aPc[p] = "start"
    /\ IF answers[p] = BadURL
       THEN AttemptReturn(p, "no request")
       ELSE /\ aLen' = [aLen EXCEPT ![p] = Len(payload)]
            /\ aPc' = [aPc EXCEPT ![p] = "send"]
            /\ UNCHANGED <<aBody, outcome>>
    /\ UNCHANGED <<peerCount, answers, syncPc, launched, syncWg, payload,
                   received, cancels, dones>>

\* client.Do writes the body: a Read of the shared buffer hands out the next
\* unread bytes; Reads of two attempts are not synchronised, so the bytes
\* one attempt read may still be unread for the other
AttemptRead(p) ==
    /\ aPc[p] = "send"
    /\ Len(aBody[p]) < aLen[p]
    /\ payload # <<>>
    /\ \E k \in 1..Min(Len(payload), aLen[p] - Len(aBody[p])) :
          /\ aBody' = [aBody EXCEPT ![p] = @ \o SubSeq(payload, 1, k)]
          /\ \/ payload' = SubSeq(payload, k + 1, Len(payload))
             \/ /\ \E q \in Peers \ {p} : aPc[q] = "send"
                /\ UNCHANGED payload
    /\ UNCHANGED <<peerCount, answers, syncPc, launched, syncWg, aPc, aLen,
                   received, outcome, cancels, dones>>

\* the payload of the call as constructed
FullPayload == constructMutationPayload(result[FirstReq].contract).buf

\* client.Do returns: an error when the body ran short of the ContentLength
\* or the peer does not answer, else the response of the peer, which is a
\* success only with status 200
AttemptDo(p) ==
    /\ aPc[p] = "send"
    /\ Len(aBody[p]) = aLen[p] \/ payload = <<>>
    /\ IF Len(aBody[p]) < aLen[p] \/ answers[p] = NoAnswer
       THEN /\ AttemptReturn(p, "error")
            /\ UNCHANGED received
       ELSE /\ received' = [received EXCEPT ![p] = Append(@, aBody[p])]
            /\ \E status \in {StatusOK, StatusError} :
                  /\ aBody[p] = FullPayload => status = answers[p]
                  /\ IF StatusOK # status
                     THEN AttemptReturn(p, "rejected")
                     ELSE AttemptReturn(p, "success")
    /\ UNCHANGED <<peerCount, answers, syncPc, launched, syncWg, payload,
                   cancels, dones>>

\* the deferred function: cancel(), wg.Done()
AttemptExit(p) ==
    /\ aPc[p] = "exit"
    /\ cancels' = [cancels EXCEPT ![p] = @ + 1]
    /\ dones' = [dones EXCEPT ![p] = @ + 1]
    /\ syncWg' = syncWg - 1
    /\ aPc' = [aPc EXCEPT ![p] = "done"]
    /\ UNCHANGED <<peerCount, answers, syncPc, launched, payload, aLen, aBody,
                   received, outcome>>

syncContractToPeer(p) ==
    AttemptRequest(p) \/ AttemptRead(p) \/ AttemptDo(p) \/ AttemptExit(p)

\* one validation request on a server with peers, and the sync it starts
InitSync == NewResolver /\ NoValidation /\ NoSync /\ SomePeers /\ NewServices
    /\ NoCalls

NextSync ==
    \/ /\ \/ \E a \in Addrs : Do(FirstReq, a)
          \/ ValidateContract(FirstReq)
          \/ StartSync(FirstReq)
          \/ DoCleanup(FirstReq)
          \/ Return(FirstReq)
       /\ UNCHANGED <<bvars, svars, uvars, fvars, gvars>>
    \/ /\ \/ syncContract
          \/ \E p \in Peers : syncContractToPeer(p)
       /\ UNCHANGED <<bvars, vvars, uvars, fvars, gvars>>

SpecSync == InitSync /\ [][NextSync]_vars

\* the first request has been validated with success and has its answer; the
\* sync it started has not begun yet
ValidatedBefore ==
    \E a \in {CHOOSE b \in Addrs : TRUE} :
       /\ vPc = [r \in Reqs |-> IF r = FirstReq THEN "done" ELSE "idle"]
       /\ sc = [r \in Reqs |->
                  IF r = FirstReq
                  THEN [Address |-> a, Validated |-> TRUE, Artefact |-> 0]
                  ELSE NoContract]
       /\ tx = [r \in Reqs |-> None]
       /\ artefacts = [r \in Reqs |-> None]
       /\ result = [r \in Reqs |->
                      IF r = FirstReq
                      THEN [contract |-> [Address |-> a, Validated |-> TRUE,
                                          Artefact |-> 1],
                            err |-> Nil]
                      ELSE None]
       /\ joined = [r \in Reqs |-> 0]
       /\ flight = [b \in Addrs |-> 0]
       /\ validated = [b \in Addrs |-> b = a]
       /\ synced = {FirstReq}
       /\ ran = [r \in Reqs |->
                   IF r = FirstReq
                   THEN {"compile", "match", "mark", "sync"} ELSE {}]

\* the sync alone, after the validation that started it; every step of the
\* sync that can be taken is taken eventually
InitAttempts == NewResolver /\ ValidatedBefore /\ NoSync /\ SomePeers /\ NewServices
    /\ NoCalls

NextAttempts ==
    /\ \/ syncContract
       \/ \E p \in Peers : syncContractToPeer(p)
    /\ UNCHANGED <<bvars, vvars, uvars, fvars, gvars>>

SpecAttempts ==
    /\ InitAttempts
    /\ [][NextAttempts]_vars
    /\ WF_vars(syncContract /\ UNCHANGED <<bvars, vvars, uvars, fvars, gvars>>)
    /\ \A p \in AllPeers :
          WF_vars(syncContractToPeer(p) /\ UNCHANGED <<bvars, vvars, uvars, fvars, gvars>>)

(***************************************************************************)
(* The broadcaster with its callers                                          *)
(***************************************************************************)
Init == NewResolver /\ NoValidation /\ NoSync /\ NoPeers /\ NewServices
    /\ NoCalls

\* an identifier a caller passes to Unsubscribe: the one of its subscription,
\* or one that is unknown to the registry
KnownIDs(reg) == reg \cup {UnknownID}

Callers ==
    \/ OnBlock
    \/ OnTransaction
    \/ \E id \in KnownIDs(blockSubscribers) : UnsubscribeBlock(id)
    \/ \E id \in KnownIDs(trxSubscribers) : UnsubscribeTrx(id)
    \/ PublishBlock
    \/ PublishTransaction
    \/ \E id \in IDs : Consume(id)

\* the broadcaster while nobody calls Close
Next == (Callers \/ runLive) /\ UNCHANGED <<vvars, svars, uvars, fvars, gvars>>

Spec == Init /\ [][Next]_vars

\* the broadcaster with its shutdown
NextClose ==
    /\ Callers \/ run \/ \E c \in Closers : Close(c)
    /\ UNCHANGED <<vvars, svars, uvars, fvars, gvars>>

SpecClose == Init /\ [][NextClose]_vars

\* the shutdown of a broadcaster whose clients subscribe to blocks only
BlockCallers ==
    \/ OnBlock
    \/ \E id \in KnownIDs(blockSubscribers) : UnsubscribeBlock(id)
    \/ PublishBlock
    \/ \E id \in IDs : Consume(id)

NextBlockClose ==
    /\ \/ BlockCallers
       \/ RunSigStop
       \/ RunUnsubscribeOnBlock
       \/ RunSubscribeOnBlock
       \/ RunOnBlockEvents
       \/ Close(StopCloser)
    /\ UNCHANGED <<vvars, svars, uvars, fvars, gvars>>

SpecBlockClose == Init /\ [][NextBlockClose]_vars

\* two calls of Close on a resolver with block subscribers; every step
\* of the loop and of the calls that can be taken is taken eventually
NextCloseTwice ==
    /\ \/ OnBlock
       \/ PublishBlock
       \/ \E id \in IDs : Consume(id)
       \/ RunSubscribeOnBlock
       \/ RunOnBlockEvents
       \/ RunSigStop
       \/ \E c \in Closers : Close(c)
    /\ UNCHANGED <<vvars, svars, uvars, fvars, gvars>>

SpecCloseTwice ==
    /\ Init
    /\ [][NextCloseTwice]_vars
    /\ WF_vars(RunSigStop /\ UNCHANGED <<vvars, svars, uvars, fvars, gvars>>)
    /\ \A c \in Closers :
          WF_vars(Close(c) /\ UNCHANGED <<vvars, svars, uvars, fvars, gvars>>)

(***************************************************************************)
(* The transaction flow updater and the shutdown of the process             *)
(***************************************************************************)
\* a bug: the goroutine is started without an entry in the wait group
txFlowUpdaterRun_NoAdd ==
    /\ schedPc = "new"
    /\ schedPc' = "start"
    /\ UNCHANGED <<flowTicker, trxCountTicker, svcWg, svcSigStop, svcDones,
                   reading, writing, estimate, ticks, failures, rollups, ts,
                   stopPc, cvClosed>>

\* run: tfu.wg.Add(1); go tfu.schedule()
txFlowUpdaterRun ==
    /\ schedPc = "new"
    /\ svcWg' = svcWg + 1
    /\ schedPc' = "start"
    /\ UNCHANGED <<flowTicker, trxCountTicker, svcSigStop, svcDones, reading,
                   writing, estimate, ticks, failures, ts, stopPc, cvClosed>>
    /\ UNCHANGED rollups

\* a bug: the count is refreshed at the first count tick only
ScheduleStart_NoInitialUpdate ==
    /\ schedPc = "start"
    /\ flowTicker' = "running"
    /\ trxCountTicker' = "running"
    /\ schedPc' = "loop"
    /\ UNCHANGED <<svcWg, svcSigStop, svcDones, reading, writing, estimate,
                   ticks, failures, ts, stopPc, cvClosed>>
    /\ UNCHANGED rollups

\* schedule up to its loop: both tickers are made, the deferred function is
\* registered, the initial update is started in a goroutine of its own
ScheduleStart ==
    /\ schedPc = "start"
    /\ flowTicker' = "running"
    /\ trxCountTicker' = "running"
    /\ reading' = reading + 1
    /\ schedPc' = "loop"
    /\ UNCHANGED <<svcWg, svcSigStop, svcDones, writing, estimate, ticks,
                   failures, ts, stopPc, cvClosed>>
    /\ UNCHANGED rollups

\* a bug: the count ticker is left running
ScheduleSigStop_OneTicker ==
    /\ schedPc = "loop"
    /\ svcSigStop > 0
    /\ svcSigStop' = svcSigStop - 1
    /\ flowTicker' = "stopped"
    /\ svcDones' = svcDones + 1
    /\ svcWg' = svcWg - 1
    /\ schedPc' = "done"
    /\ UNCHANGED <<trxCountTicker, reading, writing, estimate, ticks,
                   failures, ts, stopPc, cvClosed>>
    /\ UNCHANGED rollups

\* case <-tfu.sigStop: return, and the deferred function stops both tickers
\* and calls tfu.wg.Done()
ScheduleSigStop ==
    /\ schedPc = "loop"
    /\ svcSigStop > 0
    /\ svcSigStop' = svcSigStop - 1
    /\ flowTicker' = "stopped"
    /\ trxCountTicker' = "stopped"
    /\ svcDones' = svcDones + 1
    /\ svcWg' = svcWg - 1
    /\ schedPc' = "done"
    /\ UNCHANGED <<reading, writing, estimate, ticks, failures, ts, stopPc,
                   cvClosed>>
    /\ UNCHANGED rollups

\* a bug: the rollup is started in a goroutine of its own
ScheduleFlowTick_Go ==
    /\ schedPc = "loop"
    /\ flowTicker = "running"
    /\ ticks < MaxTicks
    /\ ticks' = ticks + 1
    /\ rollups' = rollups + 1
    /\ UNCHANGED <<schedPc, flowTicker, trxCountTicker, svcWg, svcSigStop,
                   svcDones, reading, writing, estimate, failures, ts, stopPc,
                   cvClosed>>

\* case <-flowTicker.C: the loop calls tfu.repo.TrxFlowUpdate()
ScheduleFlowTick ==
    /\ schedPc = "loop"
    /\ flowTicker = "running"
    /\ ticks < MaxTicks
    /\ ticks' = ticks + 1
    /\ rollups' = rollups + 1
    /\ schedPc' = "flow"
    /\ UNCHANGED <<flowTicker, trxCountTicker, svcWg, svcSigStop, svcDones,
                   reading, writing, estimate, failures, ts, stopPc, cvClosed>>

\* a bug: a failed rollup ends the scheduler
TrxFlowUpdate_Fatal ==
    /\ schedPc = "flow"
    /\ rollups' = rollups - 1
    /\ \E err \in {Nil, ErrFlow} :
          IF err # Nil
          THEN /\ failures' = failures + 1
               /\ schedPc' = "done"
          ELSE /\ schedPc' = "loop"
               /\ UNCHANGED failures
    /\ UNCHANGED <<flowTicker, trxCountTicker, svcWg, svcSigStop, svcDones,
                   reading, writing, estimate, ticks, ts, stopPc, cvClosed>>

\* proxy.TrxFlowUpdate: the rollup is written; an error of the write is
\* logged, and the call returns to the loop
TrxFlowUpdate ==
    /\ schedPc = "flow"
    /\ rollups' = rollups - 1
    /\ \E err \in {Nil, ErrFlow} :
          IF err # Nil
          THEN failures' = failures + 1
          ELSE UNCHANGED failures
    /\ schedPc' = "loop"
    /\ UNCHANGED <<flowTicker, trxCountTicker, svcWg, svcSigStop, svcDones,
                   reading, writing, estimate, ticks, ts, stopPc, cvClosed>>

\* case <-trxCountTicker.C: go tfu.updateTrxCountEstimate()
ScheduleCountTick ==
    /\ schedPc = "loop"
    /\ trxCountTicker = "running"
    /\ ticks < MaxTicks
    /\ ticks' = ticks + 1
    /\ reading' = reading + 1
    /\ UNCHANGED <<schedPc, flowTicker, trxCountTicker, svcWg, svcSigStop,
                   svcDones, writing, estimate, failures, ts, stopPc,
                   cvClosed>>
    /\ UNCHANGED rollups

schedule ==
    \/ ScheduleStart
    \/ ScheduleSigStop
    \/ ScheduleFlowTick
    \/ TrxFlowUpdate
    \/ ScheduleCountTick

\* updateTrxCountEstimate, the read: TransactionsCount returns a value, with
\* which the goroutine goes on to the write, or an error, which is logged
TransactionsCount ==
    /\ reading > 0
    /\ reading' = reading - 1
    /\ \E res \in [err : {ErrCount}] \cup [err : {Nil}, val : Counts] :
          IF res.err # Nil
          THEN /\ failures' = failures + 1
               /\ UNCHANGED writing
          ELSE /\ writing' = [writing EXCEPT ![res.val] = @ + 1]
               /\ UNCHANGED failures
    /\ UNCHANGED <<schedPc, flowTicker, trxCountTicker, svcWg, svcSigStop,
                   svcDones, estimate, ticks, ts, stopPc, cvClosed>>
    /\ UNCHANGED rollups

\* updateTrxCountEstimate, the write: UpdateTrxCountEstimate(val)
UpdateTrxCountEstimate ==
    /\ \E v \in Counts :
          /\ writing[v] > 0
          /\ writing' = [writing EXCEPT ![v] = @ - 1]
          /\ estimate' = v
    /\ UNCHANGED <<schedPc, flowTicker, trxCountTicker, svcWg, svcSigStop,
                   svcDones, reading, ticks, failures, ts, stopPc, cvClosed>>
    /\ UNCHANGED rollups

updateTrxCountEstimate == TransactionsCount \/ UpdateTrxCountEstimate

\* SIGINT or SIGTERM is delivered to the channel signal.Notify was given,
\* and dropped when the channel is full; the channel is made after the
\* server and its services
Signal ==
    /\ schedPc # "new"
    /\ ts < tsCapacity
    /\ ts' = ts + 1
    /\ UNCHANGED <<schedPc, flowTicker, trxCountTicker, svcWg, svcSigStop,
                   svcDones, reading, writing, estimate, ticks, failures,
                   stopPc, cvClosed>>
    /\ UNCHANGED rollups

\* <-ts; api.Stop() begins
StopBegin ==
    /\ stopPc = "serving"
    /\ ts > 0
    /\ ts' = ts - 1
    /\ stopPc' = "cv"
    /\ UNCHANGED <<schedPc, flowTicker, trxCountTicker, svcWg, svcSigStop,
                   svcDones, reading, writing, estimate, ticks, failures,
                   cvClosed>>
    /\ UNCHANGED rollups

\* cv.Close()
cvClose ==
    /\ stopPc = "cv"
    /\ cvClosed' = TRUE
    /\ stopPc' = "repo"
    /\ UNCHANGED <<schedPc, flowTicker, trxCountTicker, svcWg, svcSigStop,
                   svcDones, reading, writing, estimate, ticks, failures, ts>>
    /\ UNCHANGED rollups

\* repo.Close(): the stop signal is pushed to the service
repoCloseSend ==
    /\ stopPc = "repo"
    /\ svcSigStop < svcSigStopCapacity
    /\ svcSigStop' = svcSigStop + 1
    /\ stopPc' = "repo wait"
    /\ UNCHANGED <<schedPc, flowTicker, trxCountTicker, svcWg, svcDones,
                   reading, writing, estimate, ticks, failures, ts, cvClosed>>
    /\ UNCHANGED rollups

\* repo.Close(): Wait on the shared wait group
repoCloseWait ==
    /\ stopPc = "repo wait"
    /\ svcWg = 0
    /\ stopPc' = "rs"
    /\ UNCHANGED <<schedPc, flowTicker, trxCountTicker, svcWg, svcSigStop,
                   svcDones, reading, writing, estimate, ticks, failures, ts,
                   cvClosed>>
    /\ UNCHANGED rollups

repoClose == repoCloseSend \/ repoCloseWait

\* rs.Close() has returned, Stop returns, os.Exit(0)
StopExit ==
    /\ stopPc = "rs"
    /\ closePc[StopCloser] = "closed"
    /\ stopPc' = "exited"
    /\ UNCHANGED <<schedPc, flowTicker, trxCountTicker, svcWg, svcSigStop,
                   svcDones, reading, writing, estimate, ticks, failures, ts,
                   cvClosed>>
    /\ UNCHANGED rollups

\* ApiServer.Stop, called by the goroutine of setupSignals
Stop ==
    \/ /\ StopBegin \/ cvClose \/ repoClose \/ StopExit
       /\ UNCHANGED <<bvars, vvars, svars, fvars, gvars>>
    \/ /\ stopPc = "rs"
       /\ Close(StopCloser)
       /\ UNCHANGED <<vvars, svars, uvars, fvars, gvars>>

\* the process with its services from their start to its exit; after
\* os.Exit no goroutine takes a step
NextStop ==
    /\ stopPc # "exited"
    /\ \/ /\ \/ txFlowUpdaterRun
             \/ schedule
             \/ updateTrxCountEstimate
             \/ Signal
          /\ UNCHANGED <<bvars, vvars, svars, fvars, gvars>>
       \/ /\ RunSigStop
          /\ UNCHANGED <<vvars, svars, uvars, fvars, gvars>>
       \/ Stop

SpecStop == Init /\ [][NextStop]_vars


(***************************************************************************)
(* Properties of the broadcaster                                             *)
(***************************************************************************)
Registry(class) == IF class = "block" THEN blockSubscribers ELSE trxSubscribers

Intake(class) == IF class = "block" THEN onBlockEvents ELSE onTrxEvents

UnsubQueue(class) ==
    IF class = "block" THEN unsubscribeOnBlock ELSE unsubscribeOnTrx

Range(q) == {q[i] : i \in 1..Len(q)}

\* the events of a class in a delivery history
OfClass(h, class) == {h[i][2] : i \in {j \in 1..Len(h) : h[j][1] = class}}

\* the loop has taken the request of call u from the unsubscribe channel
Handled(u) == u \in unsubCalled /\ u.id \notin Range(UnsubQueue(u.class))

\* in this step the loop takes the head of the intake channel of a class
Takes(class) ==
    IF class = "block"
    THEN onBlockEvents # <<>> /\ onBlockEvents' = Tail(onBlockEvents)
    ELSE onTrxEvents # <<>> /\ onTrxEvents' = Tail(onTrxEvents)

C2_NothingAfterUnsubscribeCall ==
    \A u \in unsubCalled :
       u.id \in IDs => \A n \in OfClass(got[u.id], u.class) : n <= u.at

\* C2 amended: once the loop has taken the request of Unsubscribe(class, id)
\* from its channel, no event of the class is delivered to id any more; and
\* when the loop takes a request whose id is not in the registry, both
\* registries stay as they are and the loop keeps running.
C2_NothingAfterUnsubscribeHandled ==
    [][/\ \A u \in unsubCalled :
             (Handled(u) /\ u.id \in IDs) =>
                OfClass(got'[u.id], u.class) = OfClass(got[u.id], u.class)
       /\ \A class \in Classes :
             (/\ UnsubQueue(class) # <<>>
              /\ Head(UnsubQueue(class)) \notin Registry(class)
              /\ UnsubQueue(class)' = Tail(UnsubQueue(class))) =>
                /\ blockSubscribers' = blockSubscribers
                /\ trxSubscribers' = trxSubscribers
                /\ runPc' = "run"]_vars

\* C2 witness: the request of a subscriber that got an event has been handled,
\* its channel has room, and a further event of its class waits for dispatch
C2_Witness ==
    \E u \in unsubCalled :
       /\ Handled(u) /\ u.id \in IDs
       /\ OfClass(got[u.id], u.class) # {}
       /\ events[u.id] = <<>>
       /\ Intake(u.class) # <<>>

\* C3: whenever an event waits on an intake channel the loop can take it,
\* whatever the state of the delivery channels; the step that takes it puts
\* it on the channel of every registered subscriber that has room, leaves a
\* full channel as it is, and the loop keeps running.
C3_DispatchNeverBlocks ==
    [][/\ (runPc = "run" /\ onBlockEvents # <<>>) => ENABLED RunOnBlockEvents
       /\ (runPc = "run" /\ onTrxEvents # <<>>) => ENABLED RunOnTrxEvents
       /\ \A class \in Classes :
             Takes(class) =>
                /\ runPc' = "run"
                /\ \A id \in Registry(class) :
                      events'[id] =
                         IF Len(events[id]) < deliveryCapacity
                         THEN Append(events[id], <<class, Head(Intake(class))>>)
                         ELSE events[id]]_vars

\* C3 witness: of two block subscribers one still holds block 1 in its full
\* channel and missed block 2, the other got both
C3_Witness ==
    \E a, b \in IDs :
       /\ {a, b} \subseteq blockSubscribers
       /\ got[a] = << <<"block", 1>> >>
       /\ events[a] = << <<"block", 1>> >>
       /\ got[b] = << <<"block", 1>>, <<"block", 2>> >>

\* C4: a step that changes a registry is a step of the loop; callers and the
\* feed change nothing but the channels they send on.
C4_RegistriesWrittenByLoopOnly ==
    [][(blockSubscribers' # blockSubscribers \/ trxSubscribers' # trxSubscribers)
          => run]_vars

\* C4 witness: callers have sent on a subscribe and an unsubscribe channel
\* while a subscriber is registered
C4_Witness ==
    /\ blockSubscribers # {}
    /\ subscribeOnBlock + subscribeOnTrx > 0
    /\ unsubscribeOnBlock # <<>>

(***************************************************************************)
(* Properties of the contract validation                                     *)
(***************************************************************************)
\* the request is between its arrival and its answer
Active(r) == vPc[r] \notin {"idle", "done"}

\* the request runs the validation pipeline
InFlight(r) ==
    vPc[r] \in {"deployment", "compile", "match", "mark", "sync", "cleanup"}

\* the request has its answer
Answered(r) == vPc[r] \in {"return", "done"}

\* C5 as stated: of two requests for the same address that are both between
\* arrival and answer, at most one has run the compiler, and their results,
\* once both have one, are the same.
C5_OverlappingRunOnce ==
    \A r1, r2 \in Reqs :
       (/\ r1 # r2
        /\ Active(r1) /\ Active(r2)
        /\ sc[r1].Address = sc[r2].Address) =>
          /\ ~("compile" \in ran[r1] /\ "compile" \in ran[r2])
          /\ (result[r1] # None /\ result[r2] # None) =>
                result[r1] = result[r2]

\* C5 amended: at most one request per address runs the pipeline at a time;
\* a request that arrives while one for its address is in flight joins it,
\* runs no step of the pipeline itself and is answered with the result of the
\* flight it joined.
C5_CoalescedWhileInFlight ==
    /\ \A r1, r2 \in Reqs :
          (/\ r1 # r2
           /\ InFlight(r1) /\ InFlight(r2)) => sc[r1].Address # sc[r2].Address
    /\ \A a \in Addrs :
          /\ flight[a] # 0 => InFlight(flight[a]) /\ sc[flight[a]].Address = a
          /\ \A r \in Reqs :
                (InFlight(r) /\ sc[r].Address = a) => flight[a] = r
    /\ \A r \in Reqs :
          joined[r] # 0 =>
             /\ joined[r] # r
             /\ sc[joined[r]].Address = sc[r].Address
             /\ ran[r] = {} /\ r \notin synced
             /\ Answered(r) =>
                   /\ Answered(joined[r])
                   /\ result[r] = result[joined[r]]

\* C5 witness: a request that joined a flight which ran the compiler has its
\* answer
C5_Witness ==
    \E r \in Reqs :
       /\ joined[r] # 0
       /\ vPc[r] = "done"
       /\ "compile" \in ran[joined[r]]
       /\ result[r] = result[joined[r]]

\* the request ran the pipeline itself and the pipeline has returned
Returned(r) == joined[r] = 0 /\ vPc[r] \in {"cleanup", "return", "done"}

\* the deployment the request got is not one of its contract: there is no
\* transaction, or it deployed nothing, or it deployed at another address
WrongDeployment(r) ==
    \/ tx[r].err # Nil
    \/ tx[r].ContractAddress = NilAddress
    \/ tx[r].ContractAddress # sc[r].Address

\* C6: when the deployment transaction is not found, or its contract address
\* is absent or differs from the claimed address, ValidateContract returns an
\* error at once: the compiler is not invoked, no artefact is matched, nothing
\* is persisted, no sync starts and the contract is not marked validated; and
\* a request that ends with one of these two errors has run none of the steps.
C6_WrongDeploymentStops ==
    \A r \in Reqs :
       /\ (tx[r] # None /\ WrongDeployment(r)) =>
             /\ vPc[r] = "cleanup"
             /\ result[r].contract = NoContract
             /\ result[r].err =
                   (IF tx[r].err # Nil THEN tx[r].err ELSE ErrInvalid)
             /\ ran[r] = {}
             /\ ~sc[r].Validated
             /\ r \notin synced
       /\ (Returned(r) /\ result[r].err \in {ErrNotFound, ErrInvalid}) =>
             /\ ran[r] = {}
             /\ ~sc[r].Validated
             /\ r \notin synced

\* C6 witness: the pipeline has returned on a transaction that deployed a
\* contract at another address than the claimed one
C6_Witness ==
    \E r \in Reqs :
       /\ vPc[r] = "cleanup"
       /\ tx[r] # None /\ tx[r].err = Nil
       /\ tx[r].ContractAddress \in Addrs \ {sc[r].Address}
       /\ result[r].err = ErrInvalid

\* the compilation of the request gave artefacts and none has the byte code
\* the transaction deployed
NoArtefactMatches(r) ==
    /\ artefacts[r] # None /\ artefacts[r].err = Nil
    /\ \A i \in 1..Len(artefacts[r].list) :
          artefacts[r].list[i] # tx[r].InputData

\* C7: when the compilation succeeded and no artefact has the deployed byte
\* code, the match step ends ValidateContract with the does-not-match error:
\* MarkValidated is not reached, nothing is persisted and no sync starts; and a
\* request that ends with this error has compiled and matched and no more.
C7_NoMatchStops ==
    \A r \in Reqs :
       /\ (NoArtefactMatches(r) /\ vPc[r] # "match") =>
             /\ vPc[r] = "cleanup"
             /\ result[r] = [contract |-> NoContract, err |-> ErrNoMatch]
             /\ ran[r] = {"compile", "match"}
             /\ ~sc[r].Validated
             /\ r \notin synced
       /\ (Returned(r) /\ result[r].err = ErrNoMatch) =>
             /\ ran[r] = {"compile", "match"}
             /\ ~sc[r].Validated
             /\ r \notin synced

\* C7 witness: the pipeline has returned on a compilation with an artefact
\* that is not the deployed one
C7_Witness ==
    \E r \in Reqs :
       /\ NoArtefactMatches(r)
       /\ artefacts[r].list # <<>>
       /\ vPc[r] = "cleanup"
       /\ result[r].err = ErrNoMatch
       /\ ~validated[sc[r].Address]

\* C8: when the compiler returns an error, ValidateContract returns that very
\* error and nothing follows: no match, no MarkValidated, no sync; and a
\* request that ends with a compiler error has run the compiler and no more.
C8_CompilerErrorVerbatim ==
    \A r \in Reqs :
       /\ (artefacts[r] # None /\ artefacts[r].err # Nil) =>
             /\ vPc[r] = "cleanup"
             /\ result[r] = [contract |-> NoContract, err |-> artefacts[r].err]
             /\ ran[r] = {"compile"}
             /\ ~sc[r].Validated
             /\ r \notin synced
       /\ (Returned(r) /\ result[r].err \in CompileErrors) =>
             /\ ran[r] = {"compile"}
             /\ ~sc[r].Validated
             /\ r \notin synced

\* C8 witness: the pipeline has returned the error of the compiler
C8_Witness ==
    \E r \in Reqs :
       /\ vPc[r] = "cleanup"
       /\ artefacts[r] # None /\ artefacts[r].err \in CompileErrors
       /\ result[r].err = artefacts[r].err

\* C9: the validated flag only goes from false to true: no step of any
\* request, failed or successful, first or repeated, takes back the stored
\* flag of an address or the flag of a request's contract.
C9_ValidatedMonotonic ==
    [][/\ \A a \in Addrs : validated[a] => validated'[a]
       /\ \A r \in Reqs : sc[r].Validated => sc'[r].Validated]_vars

\* C9 witness: a later request for an address that is stored as validated has
\* failed on a source that does not match
C9_Witness ==
    \E r \in Reqs :
       /\ vPc[r] = "cleanup"
       /\ result[r].err = ErrNoMatch
       /\ validated[sc[r].Address]

\* C10: when the write of MarkValidated fails, its error is what the caller
\* of the validation gets, without a contract, so nothing is reported as
\* validated, and no sync is started for the request.
C10_PersistFailureSurfaced ==
    \A r \in Reqs :
       "mark failed" \in ran[r] =>
          /\ Returned(r)
          /\ result[r] = [contract |-> NoContract, err |-> ErrPersist]
          /\ "sync" \notin ran[r]
          /\ r \notin synced

\* C10 witness: a request whose artefact matched has its answer after the
\* write failed, and the address is not stored as validated
C10_Witness ==
    \E r \in Reqs :
       /\ "mark failed" \in ran[r]
       /\ "match" \in ran[r]
       /\ vPc[r] = "done"
       /\ result[r].err = ErrPersist
       /\ ~validated[sc[r].Address]

(***************************************************************************)
(* Properties of the peer validation sync                                    *)
(***************************************************************************)
\* the validation that starts the sync has been persisted and its answer is
\* the validated contract
Persisted(r) ==
    /\ validated[sc[r].Address]
    /\ "mark" \in ran[r] /\ "mark failed" \notin ran[r]
    /\ result[r].err = Nil
    /\ result[r].contract.Validated
    /\ result[r].contract.Address = sc[r].Address

\* the request can take its next step towards its answer
CanGoOn(r) ==
    ENABLED (StartSync(r) \/ DoCleanup(r) \/ Return(r))

\* C11: the sync runs only for a request whose validation has been persisted
\* with success; the request never waits for the sync: whatever the sync is
\* doing, the request can go on to its answer; and from the start of the sync
\* on the result of the request stays what it was, whatever the peers do.
C11_SyncAfterPersistAside ==
    /\ [](syncPc # "idle" => FirstReq \in synced)
    /\ [](FirstReq \in synced =>
            /\ Persisted(FirstReq)
            /\ vPc[FirstReq] # "done" => CanGoOn(FirstReq))
    /\ [][(FirstReq \in synced) => (result' = result)]_vars

\* C11 witness: the caller has its answer, the validated contract, while an
\* attempt of the sync is still sending
C11_Witness ==
    /\ vPc[FirstReq] = "done"
    /\ result[FirstReq].err = Nil
    /\ syncPc = "wait"
    /\ \E p \in Peers : aPc[p] = "send"

\* C12: when syncContract has returned, either there is no peer and no
\* attempt was launched, or an attempt was launched for every peer and every
\* attempt has finished.
C12_ReturnsAfterAllAttempts ==
    syncPc = "returned" =>
       IF peerCount = 0
       THEN launched = 0 /\ \A p \in AllPeers : aPc[p] = "none"
       ELSE /\ launched = peerCount
            /\ \A p \in Peers : aPc[p] = "done" /\ dones[p] = 1
            /\ syncWg = 0

\* C12 witness: the call has returned after the attempts to all of two or
\* more peers, one of which does not answer
C12_Witness ==
    /\ syncPc = "returned"
    /\ peerCount >= 2
    /\ \E p \in Peers : answers[p] = NoAnswer
    /\ \A p \in Peers : aPc[p] = "done"

\* C13: when syncContract has returned, every peer that answers 200 to the
\* request has got the request with the payload, whatever became of the
\* attempts to the other peers.
C13_HealthyPeersReached ==
    syncPc = "returned" =>
       \A p \in Peers :
          answers[p] = StatusOK => received[p] = <<FullPayload>>

\* C14: every body a peer gets is the complete payload of the call, the same
\* for every peer, however the attempts interleave.
C14_SameCompleteBody ==
    \A p \in Peers :
       \A i \in 1..Len(received[p]) : received[p][i] = FullPayload

\* an attempt is under way
Started(p) == aPc[p] \in {"start", "send", "exit"}

\* C15: every attempt that has started ends; it has then cancelled its
\* context once and signalled the wait group once, and before that not at
\* all; the wait group counts the attempts under way; so a call of
\* syncContract that has begun returns.
C15_AttemptsEndAndSignOff ==
    /\ [](\A p \in AllPeers :
            /\ aPc[p] = "done" => cancels[p] = 1 /\ dones[p] = 1
            /\ aPc[p] # "done" => cancels[p] = 0 /\ dones[p] = 0)
    /\ [](syncWg = Cardinality({p \in AllPeers : Started(p)}))
    /\ \A p \in AllPeers : Started(p) ~> (aPc[p] = "done")
    /\ (syncPc \in {"loop", "wait"}) ~> (syncPc = "returned")

\* C15 witness: the call has returned after attempts that ended in each way:
\* no request, an error, a rejection
C15_Witness ==
    /\ syncPc = "returned"
    /\ \E p, q \in Peers :
          /\ outcome[p] = "no request" /\ outcome[q] \in {"error", "rejected"}
          /\ dones[p] = 1 /\ dones[q] = 1
(***************************************************************************)
(* listLimitCount                                                            *)
(***************************************************************************)
\* a bug: a count beyond the limit loses its direction
listLimitCount_NoDirection(c, limit) ==
    IF c = 0
    THEN Int32(limit)
    ELSE IF \/ (c > 0 /\ Less32(Uint32(c), limit))
            \/ (c < 0 /\ c > Neg32(Int32(limit)))
         THEN c
         ELSE Int32(limit)

listLimitCount(c, limit) ==
    IF c = 0
    THEN Int32(limit)
    ELSE IF \/ (c > 0 /\ Less32(Uint32(c), limit))
            \/ (c < 0 /\ c > Neg32(Int32(limit)))
         THEN c
         ELSE IF c < 0
              THEN Neg32(Int32(limit))
              ELSE Int32(limit)

\* a resolver limits the count of a list request
CallListLimitCount ==
    /\ ~llReturned
    /\ llResult' = listLimitCount(count, llLimit)
    /\ llReturned' = TRUE
    /\ UNCHANGED <<count, llLimit, now, transactions, trxVolume, flowFrom,
                   flowRuns, firstVolume, random, uuidReturned, uuidResult>>

InitListLimit ==
    /\ NewResolver /\ NoValidation /\ NoSync /\ NoPeers /\ NewServices
    /\ count \in Counts32
    /\ llLimit = Uint32OfNat(listMaxEdgesPerRequest)
    /\ llReturned = FALSE
    /\ llResult = 0
    /\ now = Midnight(2)
    /\ transactions = <<>>
    /\ NoRollup
    /\ NoUuid
    /\ NoBridgeCalls

NextListLimit ==
    /\ CallListLimitCount
    /\ UNCHANGED <<bvars, vvars, svars, uvars, gvars>>

SpecListLimit == InitListLimit /\ [][NextListLimit]_vars

\* the call with any limit
InitListLimitAny ==
    /\ NewResolver /\ NoValidation /\ NoSync /\ NoPeers /\ NewServices
    /\ count \in Counts32
    /\ llLimit \in Limits32
    /\ llReturned = FALSE
    /\ llResult = 0
    /\ now = Midnight(2)
    /\ transactions = <<>>
    /\ NoRollup
    /\ NoUuid
    /\ NoBridgeCalls

SpecListLimitAny == InitListLimitAny /\ [][NextListLimit]_vars

(***************************************************************************)
(* The daily flow rollup: proxy.TrxFlowUpdate and                            *)
(* MongoDbBridge.TrxDailyFlowUpdate                                          *)
(***************************************************************************)
trxFlowUpdateRange == -2 * 24 * 3600

\* Time.Clock
Clock(t) ==
    [h |-> (t.sec % Day) \div 3600,
     m |-> (t.sec % 3600) \div 60,
     s |-> t.sec % 60]

\* Time.Add of a duration of sec seconds and nsec nanoseconds
Add(t, sec, nsec) ==
    [sec |-> t.sec + sec + ((t.nsec + nsec) \div Second),
     nsec |-> (t.nsec + nsec) % Second]

\* a >= b for times
NotBefore(a, b) == a.sec > b.sec \/ (a.sec = b.sec /\ a.nsec >= b.nsec)

\* a bug: the seconds and nanoseconds of the clock are left in the bound
PreviousMidnight_KeepsSeconds(t) ==
    Add(Add(t, -(Clock(t).h * 3600 + Clock(t).m * 60), 0),
        trxFlowUpdateRange, 0)

\* calculate previous midnight: now less its time of day and less its
\* nanoseconds, less the range
PreviousMidnight(t) ==
    Add(Add(Add(t, -(Clock(t).h * 3600 + Clock(t).m * 60 + Clock(t).s), 0),
            0, -t.nsec),
        trxFlowUpdateRange, 0)

\* $dateToString with the format %Y-%m-%d, in UTC: the day of the stamp
DateToString(t) == t.sec \div Day

\* $match: the transactions stamped at from or later
Match(from) ==
    {i \in DOMAIN transactions : NotBefore(transactions[i].stamp, from)}

\* $sum of f over the transactions in set
RECURSIVE SumOver(_, _)
SumOver(set, f) ==
    IF set = {}
    THEN 0
    ELSE LET i == CHOOSE j \in set : TRUE
         IN  (IF f = "amo" THEN transactions[i].amo
              ELSE IF f = "gas_use" THEN transactions[i].gas_use
              ELSE 1) + SumOver(set \ {i}, f)

\* $group and $project: one document per day of the matched transactions,
\* its stamp the $toDate of the day, the midnight that starts it
Group(from, d) ==
    LET of == {i \in Match(from) : DateToString(transactions[i].stamp) = d}
    IN  [id |-> d,
         stamp |-> Midnight(d),
         volume |-> SumOver(of, "amo"),
         gas |-> SumOver(of, "gas_use"),
         value |-> SumOver(of, "one")]

\* the documents of the aggregation, by day
RECURSIVE Grouped(_, _)
Grouped(from, days) ==
    IF days = {}
    THEN <<>>
    ELSE LET d == CHOOSE e \in days : \A g \in days : e <= g
         IN  <<Group(from, d)>> \o Grouped(from, days \ {d})

Aggregate(from) ==
    Grouped(from, {DateToString(transactions[i].stamp) : i \in Match(from)})

\* a bug: a document whose day is in the collection is added to it
MergeOne_Accumulates(col, doc) ==
    IF \E k \in 1..Len(col) : col[k].id = doc.id
    THEN [k \in 1..Len(col) |->
            IF col[k].id = doc.id
            THEN [col[k] EXCEPT !.volume = @ + doc.volume,
                                !.gas = @ + doc.gas,
                                !.value = @ + doc.value]
            ELSE col[k]]
    ELSE Append(col, doc)

\* $merge on _id: whenMatched replace, whenNotMatched insert
MergeOne(col, doc) ==
    IF \E k \in 1..Len(col) : col[k].id = doc.id
    THEN [k \in 1..Len(col) |-> IF col[k].id = doc.id THEN doc ELSE col[k]]
    ELSE Append(col, doc)

RECURSIVE Merge(_, _)
Merge(col, docs) ==
    IF docs = <<>>
    THEN col
    ELSE Merge(MergeOne(col, Head(docs)), Tail(docs))

\* MongoDbBridge.TrxDailyFlowUpdate(from): the aggregation merges its
\* documents into trx_volume; when it fails, any number of them may have
\* been merged already
TrxDailyFlowUpdate(from, err) ==
    IF err = Nil
    THEN /\ trxVolume' = Merge(trxVolume, Aggregate(from))
         /\ flowRuns' = flowRuns + 1
         /\ firstVolume' = IF flowRuns = 0 THEN trxVolume' ELSE firstVolume
    ELSE /\ \E n \in 0..Len(Aggregate(from)) :
               trxVolume' = Merge(trxVolume, SubSeq(Aggregate(from), 1, n))
         /\ UNCHANGED <<flowRuns, firstVolume>>

\* proxy.TrxFlowUpdate at the time now
FlowUpdateNow ==
    /\ flowRuns < MaxRuns
    /\ flowFrom' = PreviousMidnight(now)
    /\ \E err \in {Nil, ErrFlow} : TrxDailyFlowUpdate(flowFrom', err)
    /\ UNCHANGED <<count, llLimit, llReturned, llResult, now, transactions,
                   random, uuidReturned, uuidResult>>

\* time passes between two ticks
ClockAdvance ==
    /\ flowRuns < MaxRuns
    /\ \E t \in Times(2..LastDay) :
          /\ NotBefore(t, now)
          /\ t # now
          /\ now' = t
    /\ UNCHANGED <<count, llLimit, llReturned, llResult, transactions,
                   trxVolume, flowFrom, flowRuns, firstVolume, random,
                   uuidReturned, uuidResult>>

\* rollups at any times over one collection of transactions
InitRollup ==
    /\ NewResolver /\ NoValidation /\ NoSync /\ NoPeers /\ NewServices
    /\ NoListLimit
    /\ now \in Times(2..LastDay)
    /\ transactions \in Collections
    /\ NoRollup
    /\ NoUuid
    /\ NoBridgeCalls

NextRollup ==
    /\ FlowUpdateNow \/ ClockAdvance
    /\ UNCHANGED <<bvars, vvars, svars, uvars, gvars>>

SpecRollup == InitRollup /\ [][NextRollup]_vars

(***************************************************************************)
(* uuid                                                                      *)
(***************************************************************************)
\* bit i of the byte b
Bit(b, i) == (b \div (2 ^ i)) % 2

\* a byte from its bits
RECURSIVE ByteOf(_, _)
ByteOf(bits, i) ==
    IF i > 7 THEN 0 ELSE bits[i] * (2 ^ i) + ByteOf(bits, i + 1)

\* a &^ m
AndNot(a, m) ==
    ByteOf([i \in 0..7 |-> IF Bit(m, i) = 1 THEN 0 ELSE Bit(a, i)], 0)

\* a | m
Or(a, m) ==
    ByteOf([i \in 0..7 |-> IF Bit(m, i) = 1 THEN 1 ELSE Bit(a, i)], 0)

\* %x of a slice of bytes: two lowercase hex digits a byte
RECURSIVE Hex(_)
Hex(bytes) ==
    IF bytes = <<>>
    THEN <<>>
    ELSE <<LowerDigits[(Head(bytes) \div 16) + 1],
           LowerDigits[(Head(bytes) % 16) + 1]>> \o Hex(Tail(bytes))

\* fmt.Sprintf("%x-%x-%x-%x-%x", ...)
Sprintf(a, b, c, d, e) ==
    Hex(a) \o <<"-">> \o Hex(b) \o <<"-">> \o Hex(c) \o <<"-">> \o Hex(d)
        \o <<"-">> \o Hex(e)

\* a bug: the version bits are set and the other bits of the nibble kept
uuid_VersionNotCleared(r) ==
    IF r.n # 16 \/ r.err # Nil
    THEN [str |-> <<>>, err |-> r.err]
    ELSE LET v == [r.buf EXCEPT ![9] = Or(AndNot(r.buf[9], 192), 128)]
             u == [v EXCEPT ![7] = Or(v[7], 64)]
         IN  [str |-> Sprintf(SubSeq(u, 1, 4), SubSeq(u, 5, 6),
                              SubSeq(u, 7, 8), SubSeq(u, 9, 10),
                              SubSeq(u, 11, 16)),
              err |-> Nil]

\* uuid, for what io.ReadFull handed out; uuid[i] is the byte i + 1 here
uuid(r) ==
    IF r.n # 16 \/ r.err # Nil
    THEN [str |-> <<>>, err |-> r.err]
    ELSE LET v == [r.buf EXCEPT ![9] = Or(AndNot(r.buf[9], 192), 128)]
             u == [v EXCEPT ![7] = Or(AndNot(v[7], 240), 64)]
         IN  [str |-> Sprintf(SubSeq(u, 1, 4), SubSeq(u, 5, 6),
                              SubSeq(u, 7, 8), SubSeq(u, 9, 10),
                              SubSeq(u, 11, 16)),
              err |-> Nil]

\* a subscription asks for its identifier
CallUuid ==
    /\ ~uuidReturned
    /\ uuidResult' = uuid(random)
    /\ uuidReturned' = TRUE
    /\ UNCHANGED <<count, llLimit, llReturned, llResult, now, transactions,
                   trxVolume, flowFrom, flowRuns, firstVolume, random>>

InitUuid ==
    /\ NewResolver /\ NoValidation /\ NoSync /\ NoPeers /\ NewServices
    /\ NoListLimit
    /\ now = Midnight(2)
    /\ transactions = <<>>
    /\ NoRollup
    /\ random \in Randoms
    /\ uuidReturned = FALSE
    /\ uuidResult = [str |-> <<>>, err |-> Nil]
    /\ NoBridgeCalls

NextUuid ==
    /\ CallUuid
    /\ UNCHANGED <<bvars, vvars, svars, uvars, gvars>>

SpecUuid == InitUuid /\ [][NextUuid]_vars

(***************************************************************************)
(* MongoDbBridge.AddAccount, called by several goroutines                    *)
(***************************************************************************)
\* what a read of db.initAccounts gives: the reads and the write of the
\* field are not synchronised, so after the write a read gives the new value
\* or still the old one
ReadInitAccounts == IF initAccounts = Nil THEN {Nil, Once} ELSE {Once}

\* from the entry to the answer of InsertOne: an empty account and a failed
\* insert return an error
AddAccountInsert(c) ==
    /\ accPc[c] = "idle"
    /\ \E acc \in {Nil, "account"}, err \in {Nil, ErrInsert} :
          accPc' = [accPc EXCEPT
                       ![c] = IF acc = Nil \/ err # Nil
                              THEN "failed"
                              ELSE "check"]
    /\ UNCHANGED <<initAccounts, onceDone, onceM, inits, nilDo>>

\* if db.initAccounts != nil
AddAccountCheck(c) ==
    /\ accPc[c] = "check"
    /\ \E h \in ReadInitAccounts :
          accPc' = [accPc EXCEPT
                       ![c] = IF h # Nil THEN "receiver" ELSE "returned"]
    /\ UNCHANGED <<initAccounts, onceDone, onceM, inits, nilDo>>

\* db.initAccounts.Do(...): the field is read again for the receiver; Do on
\* a nil *sync.Once dereferences it, and the process panics
AddAccountReceiver(c) ==
    /\ accPc[c] = "receiver"
    /\ \E h \in ReadInitAccounts :
          IF h = Nil
          THEN /\ nilDo' = nilDo + 1
               /\ accPc' = [accPc EXCEPT ![c] = "panicked"]
          ELSE /\ accPc' = [accPc EXCEPT ![c] = "do"]
               /\ UNCHANGED nilDo
    /\ UNCHANGED <<initAccounts, onceDone, onceM, inits>>

\* Once.Do: returns at once when the function has run, else waits for the
\* mutex and runs it
OnceDo(c) ==
    /\ accPc[c] = "do"
    /\ IF onceDone
       THEN /\ accPc' = [accPc EXCEPT ![c] = "returned"]
            /\ UNCHANGED onceM
       ELSE /\ onceM = 0
            /\ onceM' = c
            /\ accPc' = [accPc EXCEPT ![c] = "init"]
    /\ UNCHANGED <<initAccounts, onceDone, inits, nilDo>>

\* the function given to Do: db.initAccountsCollection()
initAccountsCollection(c) ==
    /\ accPc[c] = "init"
    /\ inits' = inits + 1
    /\ accPc' = [accPc EXCEPT ![c] = "clear"]
    /\ UNCHANGED <<initAccounts, onceDone, onceM, nilDo>>

\* the function given to Do: db.initAccounts = nil
ClearInitAccounts(c) ==
    /\ accPc[c] = "clear"
    /\ initAccounts' = Nil
    /\ accPc' = [accPc EXCEPT ![c] = "unlock"]
    /\ UNCHANGED <<onceDone, onceM, inits, nilDo>>

\* Once.Do: the function has returned, done is set and the mutex released
OnceDone(c) ==
    /\ accPc[c] = "unlock"
    /\ onceDone' = TRUE
    /\ onceM' = 0
    /\ accPc' = [accPc EXCEPT ![c] = "returned"]
    /\ UNCHANGED <<initAccounts, inits, nilDo>>

AddAccount(c) ==
    \/ AddAccountInsert(c)
    \/ AddAccountCheck(c)
    \/ AddAccountReceiver(c)
    \/ OnceDo(c)
    \/ initAccountsCollection(c)
    \/ ClearInitAccounts(c)
    \/ OnceDone(c)

InitAddAccount ==
    /\ NewResolver /\ NoValidation /\ NoSync /\ NoPeers /\ NewServices
    /\ NoCalls

\* the callers of AddAccount; after a panic the process is gone
NextAddAccount ==
    /\ nilDo = 0
    /\ \E c \in AccountCallers : AddAccount(c)
    /\ UNCHANGED <<gsFrom, gsTo, gsReturned, gsResult, aggregations>>
    /\ UNCHANGED <<bvars, vvars, svars, uvars, fvars>>

SpecAddAccount == InitAddAccount /\ [][NextAddAccount]_vars

(***************************************************************************)
(* MongoDbBridge.TrxGasSpeed                                                 *)
(***************************************************************************)
\* Time.Before
Before(a, b) == a.sec < b.sec \/ (a.sec = b.sec /\ a.nsec < b.nsec)

\* Time.Sub, for a >= b
Sub(a, b) ==
    IF a.nsec >= b.nsec
    THEN [sec |-> a.sec - b.sec, nsec |-> a.nsec - b.nsec]
    ELSE [sec |-> a.sec - b.sec - 1, nsec |-> a.nsec + Second - b.nsec]

\* $match with trxDailyFlowListFilter: stamped from from to to, both included
trxDailyFlowListFilter(from, to) ==
    {i \in DOMAIN transactions :
        /\ NotBefore(transactions[i].stamp, from)
        /\ NotBefore(to, transactions[i].stamp)}

\* $group with _id nil: one row with the sum of gas_use over the documents
\* matched, no row when none is matched
GasAggregate(from, to) ==
    IF trxDailyFlowListFilter(from, to) = {}
    THEN <<>>
    ELSE <<[volume |-> SumOver(trxDailyFlowListFilter(from, to), "gas_use")]>>

\* a bug: no row is taken for no gas
trxGasSpeed_NoRowIsZero(cr, decodeErr, from, to) ==
    IF cr = <<>>
    THEN [val |-> NoSpeed, err |-> Nil]
    ELSE IF decodeErr # Nil
         THEN [val |-> NoSpeed, err |-> decodeErr]
         ELSE [val |-> [volume |-> cr[1].volume, per |-> Sub(to, from)],
               err |-> Nil]

\* trxGasSpeed: the row of the cursor over the duration of the range
trxGasSpeed(cr, decodeErr, from, to) ==
    IF cr = <<>>
    THEN [val |-> NoSpeed, err |-> ErrNoRow]
    ELSE IF decodeErr # Nil
         THEN [val |-> NoSpeed, err |-> decodeErr]
         ELSE [val |-> [volume |-> cr[1].volume, per |-> Sub(to, from)],
               err |-> Nil]

\* TrxGasSpeed: the range is checked, then the aggregation runs and its
\* cursor is handed to trxGasSpeed
TrxGasSpeed ==
    /\ ~gsReturned
    /\ IF ~Before(gsFrom, gsTo)
       THEN /\ gsResult' = [val |-> NoSpeed, err |-> ErrRange]
            /\ UNCHANGED aggregations
       ELSE /\ aggregations' = aggregations + 1
            /\ \E err \in {Nil, ErrAggregate}, decodeErr \in {Nil, ErrDecode} :
                  gsResult' =
                     IF err # Nil
                     THEN [val |-> NoSpeed, err |-> err]
                     ELSE trxGasSpeed(GasAggregate(gsFrom, gsTo), decodeErr,
                                      gsFrom, gsTo)
    /\ gsReturned' = TRUE
    /\ UNCHANGED <<gsFrom, gsTo>>

InitGasSpeed ==
    /\ NewResolver /\ NoValidation /\ NoSync /\ NoPeers /\ NewServices
    /\ NoListLimit
    /\ now = Midnight(2)
    /\ transactions \in Collections
    /\ NoRollup
    /\ NoUuid
    /\ NewBridge
    /\ gsFrom \in GasRangeEnds
    /\ gsTo \in GasRangeEnds
    /\ gsReturned = FALSE
    /\ gsResult = [val |-> NoSpeed, err |-> Nil]
    /\ aggregations = 0

NextGasSpeed ==
    /\ TrxGasSpeed
    /\ UNCHANGED <<initAccounts, onceDone, onceM, inits, nilDo, accPc>>
    /\ UNCHANGED <<bvars, vvars, svars, uvars, fvars>>

SpecGasSpeed == InitGasSpeed /\ [][NextGasSpeed]_vars

(***************************************************************************)
(* The transaction flow updater and the shutdown                             *)
(***************************************************************************)
\* C16: the step of the scheduler that receives the stop signal ends its
\* loop for good; when the loop has ended both tickers are stopped and the
\* wait group has been signalled once, and before that not at all.
C16_StopEndsSchedule ==
    /\ [][(svcSigStop' < svcSigStop) => (schedPc' = "done")]_vars
    /\ [][(schedPc = "done") => (schedPc' = "done")]_vars
    /\ [](schedPc = "done" => /\ flowTicker = "stopped"
                              /\ trxCountTicker = "stopped")
    /\ [](svcDones = IF schedPc = "done" THEN 1 ELSE 0)
    /\ [](svcWg = IF schedPc \in {"start", "loop", "flow"} THEN 1 ELSE 0)

C16_Witness ==
    /\ schedPc = "done"
    /\ ticks > 0
    /\ svcDones = 1
    /\ flowTicker = "stopped"

\* the wait on the services' wait group in repo.Close has returned
BarrierReleased == stopPc \in {"rs", "exited"}

\* C17: once the wait on the shutdown barrier has returned, no rollup and no
\* count refresh of the updater is in a read or a write of the repository.
C17_NoJobAtExit ==
    BarrierReleased =>
       /\ schedPc # "flow"
       /\ reading = 0
       /\ \A v \in Counts : writing[v] = 0

\* C18: a rollup that fails returns to the loop of the scheduler, a count
\* read that fails leaves the scheduler where it is, and both leave the
\* estimate as it was with no write of it to come; the loop ends only by
\* taking a stop signal; while it runs, both ticks can be taken again, and
\* a tick taken runs its operation.
C18_FailuresDoNotStop ==
    /\ [][(failures' > failures) =>
            (/\ schedPc' = IF reading' = reading THEN "loop" ELSE schedPc
             /\ estimate' = estimate
             /\ writing' = writing)]_vars
    /\ [][(schedPc # "done" /\ schedPc' = "done") =>
            (svcSigStop' < svcSigStop)]_vars
    /\ [](schedPc = "loop" /\ ticks < MaxTicks =>
             ENABLED ScheduleFlowTick /\ ENABLED ScheduleCountTick)
    /\ [](schedPc = "flow" => ENABLED TrxFlowUpdate)
    /\ [](reading > 0 => ENABLED TransactionsCount)

C18_Witness ==
    /\ failures >= 2
    /\ ticks >= 1
    /\ schedPc = "loop"
    /\ reading = 0
    /\ \A v \in Counts : writing[v] = 0
    /\ estimate = NoEstimate

\* C19: when the process has exited, the validator has been closed, the
\* scheduler of the updater has taken its stop signal and signed off, the
\* loop of the broadcaster has taken its stop signal and signed off, and
\* both wait groups are at zero.
C19_ExitAfterAllBarriers ==
    stopPc = "exited" =>
       /\ cvClosed
       /\ schedPc = "done"
       /\ svcDones = 1
       /\ svcWg = 0
       /\ runPc = "done"
       /\ wg = 0
       /\ closePc[StopCloser] = "closed"

C19_Witness ==
    /\ stopPc = "exited"
    /\ ticks > 0
    /\ runPc = "done"

\* C20: the step of the loop that takes the stop signal ends the loop and
\* signs off; after it the loop takes nothing from its channels, changes no
\* registry and delivers nothing; the wait group is at zero exactly when
\* the loop has ended, and a Close that has returned finds it ended.
C20_StopIsTerminal ==
    /\ [][(sigStop' < sigStop) => (runPc' = "done" /\ wg' = wg - 1)]_vars
    /\ [][(runPc = "done") =>
            (/\ runPc' = "done"
             /\ wg' = wg
             /\ blockSubscribers' = blockSubscribers
             /\ trxSubscribers' = trxSubscribers
             /\ got' = got
             /\ sigStop' >= sigStop
             /\ subscribeOnBlock' >= subscribeOnBlock
             /\ subscribeOnTrx' >= subscribeOnTrx
             /\ Len(unsubscribeOnBlock') >= Len(unsubscribeOnBlock)
             /\ Len(unsubscribeOnTrx') >= Len(unsubscribeOnTrx)
             /\ Len(onBlockEvents') >= Len(onBlockEvents)
             /\ Len(onTrxEvents') >= Len(onTrxEvents))]_vars
    /\ [](wg = IF runPc = "done" THEN 0 ELSE 1)
    /\ [](\A c \in Closers : closePc[c] = "closed" => runPc = "done")

C20_Witness ==
    /\ runPc = "done"
    /\ closePc[StopCloser] = "closed"
    /\ Len(onBlockEvents) > 0
    /\ blockSubscribers # {}

\* count refreshes under way, in their read or in their write
Refreshing ==
    LET RECURSIVE Sum(_)
        Sum(n) == IF n = 0 THEN 0 ELSE writing[n] + Sum(n - 1)
    IN  reading + Sum(MaxCount)

\* C21: the step in which the scheduler enters its loop starts one count
\* refresh, before any tick is taken; the refresh goes on whether a tick
\* comes or not, and until the first tick it is the only one.
C21_InitialRefresh ==
    /\ [][(schedPc = "start" /\ schedPc' # "start") =>
            (/\ schedPc' = "loop"
             /\ reading' = reading + 1
             /\ ticks' = 0)]_vars
    /\ [](schedPc \in {"new", "start"} =>
             /\ ticks = 0
             /\ Refreshing = 0
             /\ estimate = NoEstimate)
    /\ [](ticks = 0 => /\ Refreshing <= 1
                       /\ reading > 0 => ENABLED TransactionsCount
                       /\ Refreshing > reading =>
                             ENABLED UpdateTrxCountEstimate)

C21_Witness ==
    /\ schedPc = "loop"
    /\ ticks = 0
    /\ estimate # NoEstimate
    /\ Refreshing = 0

(***************************************************************************)
(* Functions of the resolvers and of the repository                         *)
(***************************************************************************)
\* C22: with the list limit L = 100, listLimitCount returns L for the count
\* 0, the count itself when it lies strictly between -L and L, L for a
\* count of L or more and -L for a count of -L or less.
C22_ListLimitCount ==
    llReturned =>
       llResult = IF count = 0
                  THEN listMaxEdgesPerRequest
                  ELSE IF -listMaxEdgesPerRequest < count
                          /\ count < listMaxEdgesPerRequest
                       THEN count
                       ELSE IF count > 0
                            THEN listMaxEdgesPerRequest
                            ELSE -listMaxEdgesPerRequest

C22_Witness ==
    /\ llReturned
    /\ count = MinInt32
    /\ llResult = -listMaxEdgesPerRequest

\* C23: after a rollup that follows a first one over the same transactions
\* trx_volume is what the first one left: no day has two documents, and
\* every document has the volume, gas and count it had.
C23_RollupIdempotent ==
    /\ \A j, k \in 1..Len(trxVolume) :
          trxVolume[j].id = trxVolume[k].id => j = k
    /\ flowRuns >= 1 => trxVolume = firstVolume

C23_Witness ==
    /\ flowRuns >= 2
    /\ Len(trxVolume) >= 1
    /\ \E k \in 1..Len(trxVolume) : trxVolume[k].value >= 2

\* all transactions stamped on day d
OfDay(d) ==
    {i \in DOMAIN transactions : DateToString(transactions[i].stamp) = d}

\* C30: the lower bound of every rollup is the midnight that starts the UTC
\* day two days before the day of the tick, whatever the time of the tick;
\* so every document of trx_volume holds the sums over all transactions of
\* its day.
C30_FromIsMidnight ==
    /\ [][(now' = now) =>
            (flowFrom' = Midnight(DateToString(now) - 2))]_vars
    /\ [](flowFrom.nsec = 0 /\ flowFrom.sec % Day = 0)
    /\ [](\A k \in 1..Len(trxVolume) :
             /\ trxVolume[k].stamp = Midnight(trxVolume[k].id)
             /\ trxVolume[k].volume = SumOver(OfDay(trxVolume[k].id), "amo")
             /\ trxVolume[k].gas = SumOver(OfDay(trxVolume[k].id), "gas_use")
             /\ trxVolume[k].value = SumOver(OfDay(trxVolume[k].id), "one"))

C30_Witness ==
    /\ flowRuns >= 1
    /\ Clock(now) = [h |-> 23, m |-> 59, s |-> 59]
    /\ now.nsec > 0
    /\ flowFrom = Midnight(DateToString(now) - 2)
    /\ \E k \in 1..Len(trxVolume) :
          /\ trxVolume[k].id = DateToString(flowFrom)
          /\ trxVolume[k].value >= 2

\* the value of a lowercase hex digit, 16 for any other character
HexValue(ch) ==
    IF \E i \in 1..16 : LowerDigits[i] = ch
    THEN (CHOOSE i \in 1..16 : LowerDigits[i] = ch) - 1
    ELSE 16

\* where the first digit of uuid[i] stands in the string
DigitAt(i) ==
    2 * i + 1 + (IF i >= 4 THEN 1 ELSE 0) + (IF i >= 6 THEN 1 ELSE 0)
              + (IF i >= 8 THEN 1 ELSE 0) + (IF i >= 10 THEN 1 ELSE 0)

\* the byte the string shows for uuid[i]
Shown(str, i) == 16 * HexValue(str[DigitAt(i)]) + HexValue(str[DigitAt(i) + 1])

\* C24: for sixteen random bytes uuid returns 36 characters, lowercase hex
\* digits in groups of 8-4-4-4-12 with dashes between; the first digit of
\* the third group is 4, the top two bits of the first byte of the fourth
\* group are 10, every other bit is the bit read; when the read fails it
\* returns the empty string.
C24_UuidShape ==
    uuidReturned =>
       IF random.n # 16 \/ random.err # Nil
       THEN uuidResult.str = <<>>
       ELSE /\ uuidResult.err = Nil
            /\ Len(uuidResult.str) = 36
            /\ \A j \in 1..36 :
                  IF j \in {9, 14, 19, 24}
                  THEN uuidResult.str[j] = "-"
                  ELSE HexValue(uuidResult.str[j]) < 16
            /\ uuidResult.str[15] = "4"
            /\ Shown(uuidResult.str, 8) \div 64 = 2
            /\ \A i \in 0..15 :
                  Shown(uuidResult.str, i) =
                     IF i = 6 THEN 64 + (random.buf[7] % 16)
                     ELSE IF i = 8 THEN 128 + (random.buf[9] % 64)
                     ELSE random.buf[i + 1]

C24_Witness ==
    /\ uuidReturned
    /\ random.err = Nil
    /\ random.buf[7] = 255
    /\ random.buf[9] = 255
    /\ uuidResult.str[15] = "4"
    /\ uuidResult.str[20] = "b"

(***************************************************************************)
(* More properties of the broadcaster                                        *)
(***************************************************************************)
\* C25: the events of a class reach a subscriber in the order the feed
\* published them: in what a subscriber was sent, and in what waits on its
\* channel or on an intake channel, a later event of a class never stands
\* before an earlier one.
C25_DispatchedInPublishedOrder ==
    /\ \A id \in IDs :
          \A i, j \in 1..Len(got[id]) :
             (i < j /\ got[id][i][1] = got[id][j][1]) =>
                got[id][i][2] < got[id][j][2]
    /\ \A id \in IDs :
          \A i, j \in 1..Len(events[id]) :
             (i < j /\ events[id][i][1] = events[id][j][1]) =>
                events[id][i][2] < events[id][j][2]
    /\ \A class \in Classes :
          \A i, j \in 1..Len(Intake(class)) :
             i < j => Intake(class)[i] < Intake(class)[j]

C25_Witness ==
    \E id \in IDs :
       /\ Len(got[id]) = 2
       /\ got[id][1][1] = got[id][2][1]
       /\ got[id][1][2] = 1
       /\ got[id][2][2] = 2
       /\ events[id] = <<got[id][2]>>

\* the other class
Other(class) == IF class = "block" THEN "trx" ELSE "block"

\* in this step a subscribe or unsubscribe request of the class is sent or
\* taken
Requests(class) ==
    IF class = "block"
    THEN \/ subscribeOnBlock' # subscribeOnBlock
         \/ unsubscribeOnBlock' # unsubscribeOnBlock
    ELSE \/ subscribeOnTrx' # subscribeOnTrx
         \/ unsubscribeOnTrx' # unsubscribeOnTrx

\* C26: a step in which a subscribe or unsubscribe request of one class is
\* sent or handled leaves the registry of the other class as it is; an
\* event of a class is sent to subscribers of that class only, and no
\* subscriber is in both registries.
C26_ClassesIndependent ==
    /\ [][\A class \in Classes :
             /\ Requests(class) =>
                   Registry(Other(class))' = Registry(Other(class))
             /\ Takes(class) =>
                   \A id \in Registry(Other(class)) : got'[id] = got[id]]_vars
    /\ [](blockSubscribers \cap trxSubscribers = {})
    /\ [](\A id \in IDs :
             \A i \in 1..Len(got[id]) :
                id \notin Registry(Other(got[id][i][1])))

C26_Witness ==
    \E a, b \in IDs :
       /\ a \in blockSubscribers /\ b \in trxSubscribers
       /\ got[a] = << <<"block", 1>> >>
       /\ got[b] = << <<"trx", 1>> >>
       /\ unsubscribeOnBlock # <<>>

\* C27: two calls of Close on a running resolver, one after the other or
\* at the same time, both return: neither stays in its send or in its wait,
\* and the send of the second finds room on the stop channel once the loop
\* has taken the signal of the first.
C27_BothClosesReturn ==
    /\ <>(\A c \in Closers : closePc[c] = "closed")
    /\ [](runPc = "done" =>
             \A c \in Closers : closePc[c] = "idle" => ENABLED CloseSend(c))
    /\ [](\A c \in Closers : closePc[c] = "closed" => wg = 0)

C27_Witness ==
    /\ \A c \in Closers : closePc[c] = "closed"
    /\ sigStop = sigStopCapacity
    /\ runPc = "done"
    /\ published["block"] > 0

(***************************************************************************)
(* More properties of the transaction flow updater                           *)
(***************************************************************************)
\* C28: a rollup is under way only while the scheduler is in its call, so
\* at most one at a time; while it is, the scheduler takes no stop signal,
\* has not signed off, and the wait on the barrier has not returned; the
\* step that takes the stop signal finds no rollup under way.
C28_RollupInsideLoop ==
    /\ [](rollups = IF schedPc = "flow" THEN 1 ELSE 0)
    /\ [](rollups > 0 => /\ ~ENABLED ScheduleSigStop
                         /\ svcDones = 0
                         /\ svcWg > 0
                         /\ ~BarrierReleased)
    /\ [][(svcSigStop' < svcSigStop) => (rollups = 0 /\ rollups' = 0)]_vars

C28_Witness ==
    /\ schedPc = "flow"
    /\ rollups = 1
    /\ svcSigStop > 0
    /\ stopPc = "repo wait"

\* C29: while a loop has been started and has not exited, the wait group
\* holds its entry, so a wait on the barrier returns only once the loop has
\* exited: that of repo.Close() for the updater's schedule, that of
\* rs.Close() for the broadcaster's run.
C29_EntryBeforeStart ==
    /\ [](runPc = "run" => wg > 0)
    /\ [](schedPc \in {"start", "loop", "flow"} => svcWg > 0)
    /\ [][(stopPc = "repo wait" /\ stopPc' # "repo wait")
             => schedPc = "done"]_vars
    /\ [][\A c \in Closers :
             (closePc[c] = "wait" /\ closePc'[c] = "closed")
                => runPc = "done"]_vars

C29_Witness ==
    /\ stopPc = "exited"
    /\ closePc[StopCloser] = "closed"
    /\ schedPc = "done"
    /\ runPc = "done"
    /\ ticks > 0

(***************************************************************************)
(* listLimitCount with any limit                                             *)
(***************************************************************************)
\* |x| of an int32 x as a uint32
Abs32(x) == IF x >= 0 THEN Uint32OfNat(x) ELSE Uint32(Neg32(x))

\* C31: for every count and every limit of at least 1 the result of
\* listLimitCount is not zero, is positive when the count is zero or
\* positive and negative when the count is negative, and its magnitude is
\* at most the limit.
C31_SignAndMagnitude ==
    llReturned =>
       /\ llResult # 0
       /\ (llResult > 0) = (count >= 0)
       /\ ~Less32(llLimit, Abs32(llResult))

\* the same for the limits an int32 holds
C31_UpToMaxInt32 ==
    llLimit.hi < Half \div 2 => C31_SignAndMagnitude

(***************************************************************************)
(* MongoDbBridge.AddAccount                                                  *)
(***************************************************************************)
\* C32: whatever the interleaving of the calls of AddAccount, the accounts
\* collection is initialised at most once, and no call invokes Do on a
\* handle that another call has cleared to nil.
C32_InitOnceNoNilDo ==
    /\ inits <= 1
    /\ nilDo = 0
    /\ \A c \in AccountCallers : accPc[c] # "panicked"

\* the initialisation alone runs at most once
C32_InitOnce == inits <= 1

(***************************************************************************)
(* MongoDbBridge.TrxGasSpeed                                                 *)
(***************************************************************************)
\* no transaction is stamped within the range asked for, its ends included
NothingInRange ==
    \A i \in DOMAIN transactions :
       \/ Before(transactions[i].stamp, gsFrom)
       \/ Before(gsTo, transactions[i].stamp)

\* C33: a call of TrxGasSpeed with a range whose start is not strictly
\* before its end returns the invalid-range error and has not run the
\* aggregation; a call whose aggregation ran without an error and gave no row
\* returns the aggregation-failure error; and with any error the value
\* returned is 0.0, a speed comes only from a row.
C33_RangeAndNoRow ==
    gsReturned =>
       /\ ~Before(gsFrom, gsTo) =>
             /\ gsResult.err = ErrRange
             /\ aggregations = 0
       /\ (Before(gsFrom, gsTo) /\ NothingInRange) =>
             gsResult.err \in {ErrNoRow, ErrAggregate}
       /\ gsResult.err # Nil => gsResult.val = NoSpeed
       /\ gsResult.err = Nil =>
             /\ aggregations = 1
             /\ ~NothingInRange
             /\ gsResult.val.volume > 0

C33_Witness ==
    /\ gsReturned
    /\ gsFrom = gsTo
    /\ \E i \in DOMAIN transactions : transactions[i].stamp = gsFrom
    /\ gsResult.err = ErrRange
    /\ aggregations = 0

\* the aggregation has run and found no row
C33_NoRowWitness ==
    /\ gsReturned
    /\ Before(gsFrom, gsTo)
    /\ transactions # <<>>
    /\ NothingInRange
    /\ aggregations = 1
    /\ gsResult.err = ErrNoRow

====
